---- MODULE Spec2Model ----
(***************************************************************************)
(* Model of the ircon-api case-statistics engine:                          *)
(*   BaseProcessor.safe_filter / safe_aggregate / safe_get_value,          *)
(*   the contractor and client processors, DataLoader and                  *)
(*   ReportService.build_report_tables.                                    *)
(*                                                                         *)
(* Encoding.  A DataFrame is [cols |-> set of column names,                *)
(* rows |-> sequence of records over exactly those columns].  Amounts are  *)
(* integers counted in thousandths, so 150.5 is 150500 and round(x, 2)     *)
(* rounds to a multiple of 10.  A call that may raise returns              *)
(* [ok |-> TRUE, val |-> v] or Raise.                                      *)
(***************************************************************************)
EXTENDS Integers, Sequences, FiniteSets, TLC

VARIABLES
    \* ReportService.build_report_tables: one call in progress
    tbl_cases, tbl_case_past, table_configs, pc, df, past_df, idx, tables, outcome,
    \* BaseProcessor.safe_filter applied once and again
    f_df, f_filters, f_case_sensitive, f_once, f_twice, f_pc,
    \* BaseProcessor.safe_aggregate applied to one frame
    a_df, a_columns, a_group_by, a_out, a_pc,
    \* BaseProcessor.safe_get_value applied to one nested mapping
    g_data, g_keys, g_default, g_out, g_pc,
    \* one processor called directly on a current and a past frame
    s_type, s_df, s_past_df, s_out, s_pc,
    \* several build calls in progress on the one shared ReportService: the
    \* attributes of the service, and per call its arguments and its locals
    svc, c_request, c_pc, c_df, c_past_df, c_idx, c_tables, c_outcome,
    \* BaseProcessor.format_currency applied to one value
    m_value, m_out, m_pc,
    \* one config list routed by utils.build_report_tables and by ReportService
    r_configs, r_df, r_past_df, r_idx, r_legacy, r_service, r_pc, r_outcome,
    \* one call of DatabaseConnection._retry_operation
    t_max_retries, t_retry_delay, t_outcomes, t_attempt, t_calls, t_pc, t_result,
    \* the module global _db_instance of database.py and the threads that call
    \* get_db and close_db
    d_instance, d_made, d_created, d_got, d_pc, d_overlap

build_vars == <<tbl_cases, tbl_case_past, table_configs, pc, df, past_df, idx, tables, outcome>>
filter_vars == <<f_df, f_filters, f_case_sensitive, f_once, f_twice, f_pc>>
agg_vars == <<a_df, a_columns, a_group_by, a_out, a_pc>>
get_vars == <<g_data, g_keys, g_default, g_out, g_pc>>
asm_vars == <<s_type, s_df, s_past_df, s_out, s_pc>>
shared_vars == <<svc, c_request, c_pc, c_df, c_past_df, c_idx, c_tables, c_outcome>>
fmt_vars == <<m_value, m_out, m_pc>>
route_vars == <<r_configs, r_df, r_past_df, r_idx, r_legacy, r_service, r_pc, r_outcome>>
retry_vars == <<t_max_retries, t_retry_delay, t_outcomes, t_attempt, t_calls, t_pc, t_result>>
db_vars == <<d_instance, d_made, d_created, d_got, d_pc, d_overlap>>
more_vars == <<fmt_vars, route_vars, retry_vars, db_vars>>
aux_vars == <<get_vars, asm_vars, shared_vars, more_vars>>
core_vars == <<build_vars, filter_vars, agg_vars, get_vars, asm_vars, shared_vars>>
vars == <<build_vars, filter_vars, agg_vars, aux_vars>>

----------------------------------------------------------------------------
(* Bounds of the model *)

MaxConfigs == 2
MaxFilterRows == 2
MaxFilters == 2
MaxAggRows == 2
MaxKeys == 3
MaxAsmRows == 2
NumCalls == 3
MaxAmount == 60
MaxRetries == 3
NumThreads == 2
MaxInstances == 3

----------------------------------------------------------------------------
(* Values *)

\* Python None / NaN in an object column
None == "<None>"

Raise == [ok |-> FALSE]
Ok(v) == [ok |-> TRUE, val |-> v]

\* sequencing: the rest of a body runs on the value of a call that did not raise
Then(r, K(_)) == IF r.ok THEN K(r.val) ELSE Raise

\* float64 columns of the frames; every other column is an object column
NumericCols == {"ircon_claim", "contractor_claim", "client_claim",
                "award_amount_ircon", "award_amount_contractor", "award_amount_client"}

\* str.lower() on the strings that occur in the model
Lower(s) ==
    CASE s = "Arbitration" -> "arbitration"
      [] s = "ARBITRATION" -> "arbitration"
      [] s = "Litigation" -> "litigation"
      [] s = "Contractor" -> "contractor"
      [] s = "Client" -> "client"
      [] s = "Ircon" -> "ircon"
      [] s = "In Progress" -> "in progress"
      [] s = "Accreted" -> "accreted"
      [] s = "Closed" -> "closed"
      [] s = "Settled" -> "settled"
      [] s = "Awarded" -> "awarded"
      [] OTHER -> s

EmptyFrame == [cols |-> {}, rows |-> <<>>]

\* DataFrame.empty: no rows or no columns
IsEmpty(frame) == frame.cols = {} \/ Len(frame.rows) = 0

\* frame[[c1, ..., cn]]: KeyError when a label is missing
SelectColumns(frame, columns) ==
    IF columns \subseteq frame.cols
    THEN Ok([cols |-> columns,
             rows |-> [k \in 1..Len(frame.rows) |-> [c \in columns |-> frame.rows[k][c]]]])
    ELSE Raise

RECURSIVE SeqSum(_)
SeqSum(s) == IF s = <<>> THEN 0 ELSE Head(s) + SeqSum(Tail(s))

----------------------------------------------------------------------------
(* BaseProcessor.safe_filter *)

\* filter values: a scalar string, a list of strings, or a number
Str(s) == [kind |-> "str", s |-> s]
List(items) == [kind |-> "list", items |-> items]
Num(n) == [kind |-> "num", n |-> n]

\* result[column].str.lower() == value.lower(); None cells give NaN, never equal
MatchLower(cell, value) == cell # None /\ Lower(cell) = Lower(value.s)
\* result[column].isin(value): exact membership
MatchIsin(column, cell, value) == column \notin NumericCols /\ cell \in value.items
\* result[column] == value
MatchEq(column, cell, value) ==
    IF column \in NumericCols
    THEN value.kind = "num" /\ cell = value.n
    ELSE value.kind = "str" /\ cell = value.s

RowsOf(tagged) == [k \in 1..Len(tagged) |-> tagged[k].row]

\* a boolean mask applied one position late: row k is kept when row k-1 matches
MaskSelectShifted(rows, mask) ==
    RowsOf(SelectSeq([k \in 1..Len(rows) |->
                         [row |-> rows[k], keep |-> IF k = 1 THEN FALSE ELSE mask[k - 1]]],
                     LAMBDA t : t.keep))

\* result[mask]: the rows whose mask entry is True, in order
MaskSelect(rows, mask) ==
    RowsOf(SelectSeq([k \in 1..Len(rows) |-> [row |-> rows[k], keep |-> mask[k]]],
                     LAMBDA t : t.keep))

\* the mask of one predicate over the rows of result
Mask(result, column, value, case_sensitive) ==
    [k \in 1..Len(result.rows) |->
        IF value.kind = "str" /\ ~case_sensitive THEN MatchLower(result.rows[k][column], value)
        ELSE IF value.kind = "list" THEN MatchIsin(column, result.rows[k][column], value)
        ELSE MatchEq(column, result.rows[k][column], value)]

\* an iteration without the test for a missing column: result[column] raises
FilterStepNoColumnTest(result, column, value, case_sensitive) ==
    IF column \notin result.cols THEN Raise
    ELSE IF value.kind = "str" /\ ~case_sensitive /\ column \in NumericCols THEN Raise
    ELSE Ok([result EXCEPT
                !.rows = MaskSelect(result.rows, Mask(result, column, value, case_sensitive))])

\* one iteration of the loop over filters.items()
FilterStep(result, column, value, case_sensitive) ==
    IF column \notin result.cols THEN Ok(result)   \* warning, continue
    ELSE IF value.kind = "str" /\ ~case_sensitive /\ column \in NumericCols
    THEN Raise   \* .str accessor on a float column: AttributeError
    ELSE Ok([result EXCEPT
                !.rows = MaskSelect(result.rows, Mask(result, column, value, case_sensitive))])

RECURSIVE FilterLoop(_, _, _)
FilterLoop(result, filters, case_sensitive) ==
    IF filters = <<>> THEN Ok(result)
    ELSE Then(FilterStep(result, Head(filters).column, Head(filters).value, case_sensitive),
              LAMBDA next : FilterLoop(next, Tail(filters), case_sensitive))

\* filters is the dict in insertion order: a sequence of [column, value]
safe_filter(frame, filters, case_sensitive) == FilterLoop(frame, filters, case_sensitive)

F(column, value) == [column |-> column, value |-> value]

----------------------------------------------------------------------------
(* BaseProcessor.safe_aggregate *)

\* a cell of df_processed: NaN, or a number
NaN == [nan |-> TRUE, v |-> 0]
Number(x) == [nan |-> FALSE, v |-> x]

\* the replacement left out: a zero stays a number
ReplaceZeroKept(x) == Number(x)

\* df_processed[columns] = df_processed[columns].replace(0, np.nan)
ReplaceZero(x) == IF x = 0 THEN NaN ELSE Number(x)

\* the cells of one column of the rows of one group after the replacement
ProcessedCells(members, columns, c) ==
    [k \in 1..Len(members) |->
        IF c \in columns THEN ReplaceZero(members[k][c]) ELSE Number(members[k][c])]

GroupCells(frame, columns, group_by, g, c) ==
    ProcessedCells(SelectSeq(frame.rows, LAMBDA r : r[group_by] = g), columns, c)

\* GroupBy.count: the cells that are not NaN
CountCells(cells) == Len(SelectSeq(cells, LAMBDA x : ~x.nan))
\* GroupBy.sum: NaN is skipped, an all-NaN group sums to 0
SumCells(cells) == SeqSum([k \in 1..Len(cells) |-> IF cells[k].nan THEN 0 ELSE cells[k].v])

Stats == {"count", "sum"}

Statistic(cells, stat) == IF stat = "count" THEN CountCells(cells) ELSE SumCells(cells)

\* df_processed.groupby(group_by).agg(["count", "sum"]).T as a dict:
\* group -> (column, statistic) -> number; groupby drops the None/NaN keys
GroupByAgg(frame, columns, group_by) ==
    [g \in {frame.rows[k][group_by] : k \in 1..Len(frame.rows)} \ {None} |->
        [p \in (frame.cols \ {group_by}) \X Stats |->
            Statistic(GroupCells(frame, columns, group_by, g, p[1]), p[2])]]

\* the cross-tab left without its missing expected columns
EnsureExpectedSkipped(result, aggcols) == result

\* result[expected_col] = 0 for a missing expected column
EnsureExpected(result, aggcols) ==
    [g \in DOMAIN result \cup {"Client", "Ircon"} |->
        IF g \in DOMAIN result THEN result[g] ELSE [p \in aggcols \X Stats |-> 0]]

\* result.get(group, 0)[p]
GetGroup(result, g, p) == IF g \in DOMAIN result THEN result[g][p] ELSE 0

\* a total taken over every group of the cross-tab
AddTotalAllGroups(result, aggcols) ==
    [g \in DOMAIN result \cup {"total"} |->
        IF g = "total"
        THEN [p \in aggcols \X Stats |->
                 SeqSum([k \in 1..3 |->
                     GetGroup(result, <<"Client", "Ircon", "Other">>[k], p)])]
        ELSE result[g]]

\* result['total'] = result.get('Client', 0) + result.get('Ircon', 0)
AddTotal(result, aggcols) ==
    [g \in DOMAIN result \cup {"total"} |->
        IF g = "total"
        THEN [p \in aggcols \X Stats |->
                 GetGroup(result, "Client", p) + GetGroup(result, "Ircon", p)]
        ELSE result[g]]

\* an aggregation without the two guards: the groupby runs on whatever it is given
safe_aggregate_unguarded(frame, columns, group_by) ==
    IF ~(columns \subseteq frame.cols) \/ group_by \notin frame.cols THEN Raise
    ELSE Ok(AddTotal(EnsureExpected(GroupByAgg(frame, columns, group_by),
                                    frame.cols \ {group_by}),
                     frame.cols \ {group_by}))

\* columns is the set of the listed numeric columns; {} is the empty table
safe_aggregate(frame, columns, group_by) ==
    IF IsEmpty(frame) THEN Ok(<<>>)
    ELSE IF ~(columns \subseteq frame.cols) THEN Ok(<<>>)
    ELSE IF group_by \notin frame.cols THEN Raise   \* groupby KeyError, re-raised
    ELSE Ok(AddTotal(EnsureExpected(GroupByAgg(frame, columns, group_by),
                                    frame.cols \ {group_by}),
                     frame.cols \ {group_by}))

----------------------------------------------------------------------------
(* BaseProcessor.safe_get_value *)

\* a nested mapping: a dict node over keys (tuples), or a leaf value
Dict(items) == [kind |-> "dict", items |-> items]
Leaf(v) == [kind |-> "leaf", v |-> v]
EmptyDict == Dict(<<>>)

\* result.get(key, {}); AttributeError when result is no dict
DictGet(node, key) ==
    IF node.kind # "dict" THEN Raise
    ELSE IF key \in DOMAIN node.items THEN Ok(node.items[key]) ELSE Ok(EmptyDict)

RECURSIVE WalkKeys(_, _)
WalkKeys(result, keys) ==
    IF keys = <<>> THEN Ok(result)
    ELSE Then(DictGet(result, Head(keys)), LAMBDA got : WalkKeys(got, Tail(keys)))

IsEmptyDict(node) == node.kind = "dict" /\ DOMAIN node.items = {}

\* a truthiness test in place of the comparison with {}: "result or default"
ResultOrDefaultFalsy(walked, default) ==
    IF ~walked.ok THEN default
    ELSE IF IsEmptyDict(walked.val) \/ walked.val = Leaf(0) THEN default ELSE walked.val

\* "return result if result != {} else default", default on any exception
ResultOrDefault(walked, default) ==
    IF ~walked.ok THEN default
    ELSE IF IsEmptyDict(walked.val) THEN default ELSE walked.val

safe_get_value(data, keys, default) == ResultOrDefault(WalkKeys(data, keys), default)

----------------------------------------------------------------------------
(* Formatting helpers *)

\* round(x, 2) of an amount in thousandths: nearest multiple of 10, ties to even
Round2(x) ==
    LET q == x \div 10
        r == x % 10
    IN IF r < 5 THEN 10 * q
       ELSE IF r > 5 THEN 10 * (q + 1)
       ELSE IF q % 2 = 0 THEN 10 * q ELSE 10 * (q + 1)

\* int(x) of a count (an int64 of pandas, or the default 0)
ToInt(x) == x

\* the digits after the point of str(float): trailing zeros dropped, one kept
FracDigits(f) ==
    LET d1 == f \div 100
        d2 == (f \div 10) % 10
        d3 == f % 10
    IN IF d3 # 0 THEN ToString(d1) \o ToString(d2) \o ToString(d3)
       ELSE IF d2 # 0 THEN ToString(d1) \o ToString(d2)
       ELSE ToString(d1)

\* str(x) of a non-negative float given in thousandths: 150500 is "150.5", 0 is "0.0"
FloatStr(x) == ToString(x \div 1000) \o "." \o FracDigits(x % 1000)

----------------------------------------------------------------------------
(* ContractorProcessor: position summary (arb_contractor, court_contractor) *)

\* case_status is Str(..) or List(..); it is never empty at the call sites
_aggregate_contractor_data(frame, case_type, user_type, case_status) ==
    Then(safe_filter(frame, <<F("case_type", Str(case_type)), F("user_type", Str(user_type)),
                              F("case_status", case_status)>>, FALSE), LAMBDA filtered :
    \* filtered[[...]]: KeyError when a column is not in the index
    Then(SelectColumns(filtered, {"borne_by", "ircon_claim", "contractor_claim"}),
         LAMBDA selected :
    safe_aggregate(selected, {"ircon_claim", "contractor_claim"}, "borne_by")))

\* one cross-tab as a nested mapping: (group,) -> (column, statistic) -> leaf
TableNode(table) ==
    Dict([gk \in {<<g>> : g \in DOMAIN table} |->
            Dict([p \in DOMAIN table[gk[1]] |-> Leaf(table[gk[1]][p])])])

\* the dict of the four cross-tabs as a nested mapping for safe_get_value
DataNode(data) == Dict([bk \in {<<b>> : b \in DOMAIN data} |-> TableNode(data[bk[1]])])

Format(formatter, x) == IF formatter = "int" THEN ToInt(x) ELSE Round2(x)

\* formatter(self.safe_get_value(data, [bucket, group, (claim_type, agg_type)]))
Cell(node, bucket, group, claim_type, agg_type, formatter) ==
    Format(formatter,
           safe_get_value(node, <<<<bucket>>, <<group>>, <<claim_type, agg_type>>>>,
                          Leaf(0)).v)

RowOf(node, category, metric, c, a, f) ==
    [category |-> category,
     metric |-> metric,
     opening_client |-> Cell(node, "opening", "Client", c, a, f),
     opening_ircon |-> Cell(node, "opening", "Ircon", c, a, f),
     opening_total |-> Cell(node, "opening", "total", c, a, f),
     accretion_client |-> Cell(node, "accretion", "Client", c, a, f),
     accretion_ircon |-> Cell(node, "accretion", "Ircon", c, a, f),
     closed_client |-> Cell(node, "closed", "Client", c, a, f),
     closed_ircon |-> Cell(node, "closed", "Ircon", c, a, f),
     closed_total |-> Cell(node, "closed", "total", c, a, f),
     pendency_client |-> Cell(node, "pendency", "Client", c, a, f),
     pendency_ircon |-> Cell(node, "pendency", "Ircon", c, a, f),
     pendency_total |-> Cell(node, "pendency", "total", c, a, f)]

_build_row(data, category, metric, claim_type, agg_type, formatter) ==
    RowOf(DataNode(data), category, metric, claim_type, agg_type, formatter)

\* the rows grouped by metric instead of by claimant: both counts, then both amounts
_build_contractor_rows_by_metric(data) ==
    <<_build_row(data, "Contractor's Claims on IRCON", "Nos.", "contractor_claim", "count", "int"),
      _build_row(data, "IRCON's Claims on Contractor", "Nos.", "ircon_claim", "count", "int"),
      _build_row(data, "Contractor's Claims on IRCON", "Amt in Crs.", "contractor_claim", "sum", "round2"),
      _build_row(data, "IRCON's Claims on Contractor", "Amt in Crs.", "ircon_claim", "sum", "round2")>>

_build_contractor_rows(data) ==
    <<_build_row(data, "Contractor's Claims on IRCON", "Nos.", "contractor_claim", "count", "int"),
      _build_row(data, "Contractor's Claims on IRCON", "Amt in Crs.", "contractor_claim", "sum", "round2"),
      _build_row(data, "IRCON's Claims on Contractor", "Nos.", "ircon_claim", "count", "int"),
      _build_row(data, "IRCON's Claims on Contractor", "Amt in Crs.", "ircon_claim", "sum", "round2")>>

\* the body shared by process_arb_contractor and process_court_contractor
PositionSummary(frame, past_frame, case_type) ==
    Then(_aggregate_contractor_data(frame, case_type, "Contractor", Str("In Progress")),
         LAMBDA pendency :
    Then(_aggregate_contractor_data(past_frame, case_type, "Contractor", Str("In Progress")),
         LAMBDA opening :
    Then(_aggregate_contractor_data(frame, case_type, "Contractor", Str("Accreted")),
         LAMBDA accretion :
    Then(_aggregate_contractor_data(frame, case_type, "Contractor",
                                    List({"Closed", "Settled", "Awarded"})),
         LAMBDA closed :
    Ok([rows |-> _build_contractor_rows([pendency |-> pendency, opening |-> opening,
                                         accretion |-> accretion, closed |-> closed])])))))

process_arb_contractor(frame, past_frame) == PositionSummary(frame, past_frame, "Arbitration")

process_court_contractor(frame, past_frame) == PositionSummary(frame, past_frame, "Litigation")

----------------------------------------------------------------------------
(* BaseProcessor.format_currency *)

Glyph == "₹"

\* value is a number Num(n), a text float() parses NumText(n), or a value
\* float() rejects with ValueError or TypeError: Str(text) or NoValue
NoValue == [kind |-> "none"]
NumText(n) == [kind |-> "numtext", n |-> n]
\* an int beyond the range of float: float() raises OverflowError
HugeInt == [kind |-> "hugeint"]

format_currency(value) ==
    IF value.kind \in {"num", "numtext"} THEN Glyph \o FloatStr(Round2(value.n))
    ELSE Glyph \o "0.00"

\* the call as its caller sees it: OverflowError is not among the exceptions
\* the except clause names
format_currency_call(value) ==
    IF value.kind = "hugeint" THEN Raise ELSE Ok(format_currency(value))

----------------------------------------------------------------------------
(* ContractorProcessor.process_arb_lit_contractor *)

\* frame[column].sum(): KeyError when the column is missing
ColumnSum(frame, column) ==
    IF column \notin frame.cols THEN Raise
    ELSE Ok(SeqSum([k \in 1..Len(frame.rows) |-> frame.rows[k][column]]))

\* one period of _process_case_type: [(len(all), len(ircon)), (currency, currency)]
PeriodStats(frame, case_type) ==
    Then(safe_filter(frame, <<F("case_type", Str(case_type)),
                              F("user_type", Str("contractor"))>>, FALSE), LAMBDA all :
    Then(safe_filter(all, <<F("borne_by", Str("client"))>>, FALSE), LAMBDA client_cases :
    Then(safe_filter(all, <<F("borne_by", Str("ircon"))>>, FALSE), LAMBDA ircon_cases :
    Then(ColumnSum(client_cases, "contractor_claim"), LAMBDA csum :
    Then(ColumnSum(ircon_cases, "ircon_claim"), LAMBDA isum :
    Ok(<< <<Len(all.rows), Len(ircon_cases.rows)>>,
          <<format_currency(Num(csum)), format_currency(Num(isum))>> >>))))))

_process_case_type(frame, past_frame, case_type) ==
    Then(PeriodStats(past_frame, case_type), LAMBDA old_q :
    Then(PeriodStats(frame, case_type), LAMBDA q :
    Ok([old_q |-> old_q, q |-> q])))

process_arb_lit_contractor(frame, past_frame) ==
    Then(_process_case_type(frame, past_frame, "arbitration"), LAMBDA arb_data :
    Then(_process_case_type(frame, past_frame, "litigation"), LAMBDA lit_data :
    Ok([old_q |-> [arb_val |-> arb_data.old_q, lit_val |-> lit_data.old_q],
        q |-> [arb_val |-> arb_data.q, lit_val |-> lit_data.q]])))

----------------------------------------------------------------------------
(* Detail listings: process_closed_cases, process_revised_cases,           *)
(* process_closed_client_cases                                             *)

\* a[c].astype(str) + " " + b[c].astype(str) of one row
\* the two amounts added and shown as one number
ClaimOrAwardSummed(row, claim, award) == FloatStr(row[claim] + row[award])

ClaimOrAward(row, claim, award) == FloatStr(row[claim]) \o " " \o FloatStr(row[award])

CompositeCols == {"claimant", "case_pertain", "borne_by", "contractor_claim",
                  "award_amount_contractor", "ircon_claim", "award_amount_ircon"}

\* the Litigation branch: two derived text columns, then the projection and remarks
CompositeRows(filtered) ==
    IF ~(CompositeCols \subseteq filtered.cols) THEN Raise
    ELSE Ok([k \in 1..Len(filtered.rows) |->
               LET r == filtered.rows[k]
               IN <<r.claimant, r.case_pertain, r.borne_by,
                    ClaimOrAward(r, "contractor_claim", "award_amount_contractor"),
                    ClaimOrAward(r, "ircon_claim", "award_amount_ircon"),
                    "">>])

\* the projection filtered[columns] with remarks appended, columns in order
ProjectRows(filtered, columns) ==
    IF ~({columns[j] : j \in 1..Len(columns)} \subseteq filtered.cols) THEN Raise
    ELSE Ok([k \in 1..Len(filtered.rows) |->
               [j \in 1..(Len(columns) + 1) |->
                   IF j <= Len(columns) THEN filtered.rows[k][columns[j]] ELSE ""]])

process_closed_cases(frame, case_type, user_type) ==
    Then(safe_filter(frame, <<F("case_type", Str(case_type)),
                              F("user_type", Str(user_type)),
                              F("case_status", Str("Closed"))>>, FALSE), LAMBDA filtered :
    Then(IF case_type = "Litigation" THEN CompositeRows(filtered)
         ELSE ProjectRows(filtered, <<"claimant", "case_pertain", "borne_by",
                                      "contractor_claim", "award_amount_contractor",
                                      "ircon_claim", "award_amount_ircon">>),
         LAMBDA rows : Ok([rows |-> rows])))

process_revised_cases(frame, case_type, user_type) ==
    Then(safe_filter(frame, <<F("case_type", Str(case_type)),
                              F("user_type", Str(user_type)),
                              F("case_status", Str("Accreted"))>>, FALSE), LAMBDA filtered :
    Then(IF case_type = "Litigation" THEN CompositeRows(filtered)
         ELSE ProjectRows(filtered, <<"claimant", "case_pertain", "borne_by",
                                      "contractor_claim", "ircon_claim">>),
         LAMBDA rows : Ok([rows |-> rows])))

process_closed_client_cases(frame, case_type) ==
    Then(safe_filter(frame, <<F("case_type", Str(case_type)),
                              F("user_type", Str("Client")),
                              F("case_status", Str("Closed"))>>, FALSE), LAMBDA filtered :
    Then(CompositeRows(filtered), LAMBDA rows : Ok([rows |-> rows])))

----------------------------------------------------------------------------
(* ClientProcessor.process_arb_lit_client *)

\* (ircon_count, ircon_sum, client_count, client_sum); only client_claim has its
\* zeros replaced by NaN before the count
_extract_claim_stats(frame) ==
    IF IsEmpty(frame) THEN <<0, 0, 0, 0>>
    ELSE <<CountCells([k \in 1..Len(frame.rows) |-> Number(frame.rows[k].ircon_claim)]),
           SeqSum([k \in 1..Len(frame.rows) |-> frame.rows[k].ircon_claim]),
           CountCells([k \in 1..Len(frame.rows) |-> ReplaceZero(frame.rows[k].client_claim)]),
           SeqSum([k \in 1..Len(frame.rows) |-> frame.rows[k].client_claim])>>

\* one bucket: filter, project to the two claim columns, extract
ClientBucket(frame, filters) ==
    Then(safe_filter(frame, filters, FALSE), LAMBDA filtered :
    Then(SelectColumns(filtered, {"ircon_claim", "client_claim"}), LAMBDA selected :
    Ok(_extract_claim_stats(selected))))

ClientFilters(case_type) == <<F("case_type", Str(case_type)), F("user_type", Str("Client"))>>

_process_client_case_type(cases, case_past, case_type) ==
    Then(ClientBucket(cases, ClientFilters(case_type)), LAMBDA pendency :
    Then(ClientBucket(case_past, ClientFilters(case_type)), LAMBDA opening :
    Then(ClientBucket(case_past, Append(ClientFilters(case_type),
                                        F("case_status", Str("Accreted")))), LAMBDA accreted :
    Then(ClientBucket(case_past, Append(ClientFilters(case_type),
                                        F("case_status", Str("Closed")))), LAMBDA closed :
    Ok([pendency |-> pendency, opening |-> opening,
        accreted |-> accreted, closed |-> closed])))))

\* a row whose values start with the pendency: pendency, opening, accreted, closed
ClientRowPendencyFirst(section, label, d, j) ==
    IF j \in {1, 3}
    THEN <<section, label, d.pendency[j], d.opening[j], d.accreted[j], d.closed[j]>>
    ELSE <<section, label, Round2(d.pendency[j]), Round2(d.opening[j]),
           Round2(d.accreted[j]), Round2(d.closed[j])>>

\* one output tuple: the count rows as they are, the amount rows rounded
ClientRow(section, label, d, j) ==
    IF j \in {1, 3}
    THEN <<section, label, d.opening[j], d.accreted[j], d.closed[j], d.pendency[j]>>
    ELSE <<section, label, Round2(d.opening[j]), Round2(d.accreted[j]),
           Round2(d.closed[j]), Round2(d.pendency[j])>>

_build_client_rows(data) ==
    LET arb == data.arbitration
        lit == data.litigation
    IN <<ClientRow("Arbitration", "Claims by IRCON in Nos.", arb, 1),
         ClientRow("Arbitration", "Claims Amt. by IRCON in Cr.", arb, 2),
         ClientRow("Arbitration", "C/Claims by Clients in Nos.", arb, 3),
         ClientRow("Arbitration", "C/Claims by Clients Amt. in Cr.", arb, 4),
         ClientRow("Court", "Award in favour of IRCON in Nos.", lit, 1),
         ClientRow("Court", "Award Amt. in favour of IRCON in Cr.", lit, 2),
         ClientRow("Court", "Award in favour of Clients in Nos.", lit, 3),
         ClientRow("Court", "Award/Claim Amt. in favour of Client in Cr.", lit, 4)>>

process_arb_lit_client(frame, past_frame) ==
    Then(_process_client_case_type(frame, past_frame, "Arbitration"), LAMBDA arbitration :
    Then(_process_client_case_type(frame, past_frame, "Litigation"), LAMBDA litigation :
    Ok([rows |-> _build_client_rows([arbitration |-> arbitration,
                                     litigation |-> litigation])])))

----------------------------------------------------------------------------
(* DataLoader *)

\* the columns of CaseRecord.model_dump() that the processors read
CaseCols == {"case_type", "user_type", "borne_by", "case_status", "claimant", "case_pertain",
             "ircon_claim", "contractor_claim", "client_claim",
             "award_amount_ircon", "award_amount_contractor"}

\* the columns of PastCaseRecord.model_dump() that the processors read; the model
\* has no case_type, user_type or borne_by field
PastCols == {"case_id", "case_status", "ircon_claim", "contractor_claim", "client_claim"}

\* what the caller hands over as a collection: None, a list of records, or a
\* list holding something that is no record (no model_dump)
NoneInput == [kind |-> "none"]
InvalidInput == [kind |-> "invalid"]
\* a value that is no list and is falsy: 0, "", {}
FalsyInput == [kind |-> "falsy"]
ListInput(items) == [kind |-> "list", items |-> items]

\* a loader that refuses an empty or absent collection
LoadFrameStrict(collection, columns) ==
    IF collection.kind = "list" /\ collection.items # <<>>
    THEN Ok([cols |-> columns, rows |-> collection.items])
    ELSE Raise

\* "if not cases" covers None, [] and every falsy value; model_dump of a
\* non-record raises
LoadFrame(collection, columns) ==
    IF collection.kind \in {"none", "falsy"} THEN Ok(EmptyFrame)
    ELSE IF collection.kind = "list" /\ collection.items = <<>> THEN Ok(EmptyFrame)
    ELSE IF collection.kind = "invalid" THEN Raise
    ELSE Ok([cols |-> columns, rows |-> collection.items])

load_cases_data(cases) == LoadFrame(cases, CaseCols)

load_past_cases_data(past_cases) == LoadFrame(past_cases, PastCols)

----------------------------------------------------------------------------
(* ReportService *)

KnownTypes == {"arb_lit_contractor", "arb_contractor", "court_contractor",
               "rev_arb_contractor", "rev_court_contractor", "close_arb_contractor",
               "close_court_contractor", "close_court_client", "arb_lit_client"}

\* processor_map[table_type]()
processor_map(table_type, frame, past_frame) ==
    CASE table_type = "arb_lit_contractor" -> process_arb_lit_contractor(frame, past_frame)
      [] table_type = "arb_contractor" -> process_arb_contractor(frame, past_frame)
      [] table_type = "court_contractor" -> process_court_contractor(frame, past_frame)
      [] table_type = "rev_arb_contractor" -> process_revised_cases(frame, "Arbitration", "Contractor")
      [] table_type = "rev_court_contractor" -> process_revised_cases(frame, "Litigation", "Contractor")
      [] table_type = "close_arb_contractor" -> process_closed_cases(frame, "Arbitration", "Contractor")
      [] table_type = "close_court_contractor" -> process_closed_cases(frame, "Litigation", "Contractor")
      [] table_type = "close_court_client" -> process_closed_client_cases(frame, "Litigation")
      [] table_type = "arb_lit_client" -> process_arb_lit_client(frame, past_frame)

\* the requested type kept as the type of the entry
display_type_identity(table_type) == table_type

\* display_type_map.get(table_type, table_type)
display_type_map(table_type) ==
    CASE table_type = "court_contractor" -> "arb_contractor"
      [] table_type = "rev_court_contractor" -> "rev_arb_contractor"
      [] table_type = "close_court_client" -> "close_court_contractor"
      [] OTHER -> table_type

\* the three ends of _process_single_table: a table, None, or an exception
Table(v) == [ok |-> TRUE, none |-> FALSE, val |-> v]
NoTable == [ok |-> TRUE, none |-> TRUE]
Raised == [ok |-> FALSE, none |-> FALSE]

\* the dict returned once the processor has run; its exception propagates
Package(config, data) ==
    IF ~data.ok THEN Raised
    ELSE Table([type |-> display_type_map(config.type),
                title |-> config.title,
                data |-> data.val])

_process_single_table(config, frame, past_frame) ==
    IF "type" \notin DOMAIN config THEN Raised   \* config["type"]: KeyError
    ELSE IF config.type \notin KnownTypes THEN NoTable
    ELSE Package(config, processor_map(config.type, frame, past_frame))

----------------------------------------------------------------------------
(* Inputs *)

SeqsUpTo(S, n) == UNION {[1..k -> S] : k \in 0..n}

Case(case_type, user_type, borne_by, case_status, ircon_claim, contractor_claim, award_amount_ircon, award_amount_contractor) ==
    [case_type |-> case_type, user_type |-> user_type, borne_by |-> borne_by,
     case_status |-> case_status, claimant |-> "ABC Contractors Ltd",
     case_pertain |-> None, ircon_claim |-> ircon_claim,
     contractor_claim |-> contractor_claim, client_claim |-> 0,
     award_amount_ircon |-> award_amount_ircon,
     award_amount_contractor |-> award_amount_contractor]

\* the record of the end-to-end scenario: no case_status, ircon_claim 150.5
RecScenario == Case("Arbitration", "Contractor", "Ircon", None, 150500, 0, 0, 0)
RecInProgress == Case("Arbitration", "Contractor", "Ircon", "In Progress", 150500, 0, 0, 0)
RecLitClosed == Case("Litigation", "Contractor", "Client", "Closed", 0, 100000, 0, 90000)
RecLitAccreted == Case("Litigation", "Contractor", "Ircon", "Accreted", 75250, 1234, 0, 0)
RecClientClosed == Case("Litigation", "Client", "Ircon", "Closed", 20000, 0, 5000, 0)

PastCase(case_id, case_status, ircon_claim, contractor_claim, client_claim) ==
    [case_id |-> case_id, case_status |-> case_status, ircon_claim |-> ircon_claim,
     contractor_claim |-> contractor_claim, client_claim |-> client_claim]

PastInProgress == PastCase(1, "In Progress", 150500, 200000, 0)
PastClosed == PastCase(2, "Closed", 0, 100000, 30000)

CasesInputs ==
    {NoneInput, InvalidInput, FalsyInput, ListInput(<<>>),
     ListInput(<<RecScenario>>), ListInput(<<RecInProgress>>),
     ListInput(<<RecLitClosed, RecLitAccreted>>),
     ListInput(<<RecClientClosed, RecLitClosed>>)}

PastInputs ==
    {NoneInput, InvalidInput, FalsyInput, ListInput(<<>>),
     ListInput(<<PastInProgress>>), ListInput(<<PastInProgress, PastClosed>>)}

\* the titles of server.get_table_configs
TitleOf(table_type) ==
    CASE table_type = "arb_lit_contractor" -> "Over all position of Arbitration and Court cases with Contractors"
      [] table_type = "arb_contractor" -> "Over all position of Arbitration cases with Contractors"
      [] table_type = "rev_arb_contractor" -> "Details of Arbitration cases with Contractors Accreted/Revised"
      [] table_type = "close_arb_contractor" -> "Details of Arbitration cases with Contractors Closed"
      [] table_type = "court_contractor" -> "Over all position of Court cases with Contractors"
      [] table_type = "rev_court_contractor" -> "Details of Court cases with Contractors Accretion"
      [] table_type = "close_court_contractor" -> "Details of Court cases with Contractors Closed"
      [] table_type = "arb_lit_client" -> "Over all position of Arbitration and Court cases with Clients"
      [] table_type = "close_court_client" -> "Details of Court cases with Client Closed"
      [] OTHER -> "Untitled"

Config(table_type) == [type |-> table_type, title |-> TitleOf(table_type)]

\* a config dict without a "type" key
UntypedConfig == [title |-> "Untitled"]

ConfigSet == {Config(t) : t \in KnownTypes \cup {"unknown_report"}} \cup {UntypedConfig}

ConfigLists == SeqsUpTo(ConfigSet, MaxConfigs)

----------------------------------------------------------------------------
(* ReportService.build_report_tables as a state machine *)

NotRun == [ok |-> FALSE]

BuildIdle ==
    /\ tbl_cases = NoneInput /\ tbl_case_past = NoneInput /\ table_configs = <<>>
    /\ pc = "idle" /\ df = EmptyFrame /\ past_df = EmptyFrame
    /\ idx = 1 /\ tables = <<>> /\ outcome = "none"

FilterIdle ==
    /\ f_df = EmptyFrame /\ f_filters = <<>> /\ f_case_sensitive = FALSE
    /\ f_once = NotRun /\ f_twice = NotRun /\ f_pc = "idle"

AggIdle ==
    /\ a_df = EmptyFrame /\ a_columns = {} /\ a_group_by = "borne_by"
    /\ a_out = NotRun /\ a_pc = "idle"

GetIdle ==
    /\ g_data = EmptyDict /\ g_keys = <<>> /\ g_default = Leaf(0)
    /\ g_out = Leaf(0) /\ g_pc = "idle"

AsmIdle ==
    /\ s_type = "arb_contractor" /\ s_df = EmptyFrame /\ s_past_df = EmptyFrame
    /\ s_out = NotRun /\ s_pc = "idle"

\* ReportService.__init__: a loader and two processors, none of which keeps data
ServiceInit ==
    [data_loader |-> "DataLoader",
     contractor_processor |-> "ContractorProcessor",
     client_processor |-> "ClientProcessor"]

SharedIdle ==
    /\ svc = ServiceInit
    /\ c_request = <<>> /\ c_pc = <<>> /\ c_df = <<>> /\ c_past_df = <<>>
    /\ c_idx = <<>> /\ c_tables = <<>> /\ c_outcome = <<>>

FmtIdle == m_value = NoValue /\ m_out = NotRun /\ m_pc = "idle"

RouteIdle ==
    /\ r_configs = <<>> /\ r_df = EmptyFrame /\ r_past_df = EmptyFrame
    /\ r_idx = 1 /\ r_legacy = <<>> /\ r_service = <<>>
    /\ r_pc = "idle" /\ r_outcome = "none"

RetryIdle ==
    /\ t_max_retries = 0 /\ t_retry_delay = 0 /\ t_outcomes = <<>>
    /\ t_attempt = 0 /\ t_calls = 0 /\ t_pc = "idle" /\ t_result = "none"

\* the value of the global _db_instance: None, or the n-th DatabaseConnection
\* constructed
NoInstance == <<>>
Instance(n) == <<n>>

DbIdle ==
    /\ d_instance = NoInstance /\ d_made = 0 /\ d_created = {} /\ d_got = {}
    /\ d_pc = <<>> /\ d_overlap = FALSE

MoreIdle == FmtIdle /\ RouteIdle /\ RetryIdle /\ DbIdle

CoreIdle == BuildIdle /\ FilterIdle /\ AggIdle /\ GetIdle /\ AsmIdle /\ SharedIdle

AuxIdle == GetIdle /\ AsmIdle /\ SharedIdle /\ MoreIdle

Init ==
    /\ tbl_cases \in CasesInputs
    /\ tbl_case_past \in PastInputs
    /\ table_configs \in ConfigLists
    /\ pc = "start" /\ df = EmptyFrame /\ past_df = EmptyFrame
    /\ idx = 1 /\ tables = <<>> /\ outcome = "none"
    /\ FilterIdle /\ AggIdle /\ AuxIdle

\* the two loads; an exception of either leaves through the outer except
Load ==
    /\ pc = "start"
    /\ LET cases == load_cases_data(tbl_cases)
           past == load_past_cases_data(tbl_case_past)
       IN IF cases.ok /\ past.ok
          THEN /\ df' = cases.val /\ past_df' = past.val
               /\ pc' = "loop" /\ outcome' = outcome
          ELSE /\ pc' = "done" /\ outcome' = "raised"
               /\ UNCHANGED <<df, past_df>>
    /\ UNCHANGED <<tbl_cases, tbl_case_past, table_configs, idx, tables>>
    /\ UNCHANGED <<filter_vars, agg_vars, aux_vars>>

\* a listing assembler that writes its remarks column into the frame it was given
FrameAfterInPlace(config, frame) ==
    IF "type" \in DOMAIN config /\ config.type \in KnownTypes
       /\ config.type \notin {"arb_lit_contractor", "arb_contractor", "court_contractor",
                              "arb_lit_client"}
       /\ ~IsEmpty(frame)
    THEN [cols |-> frame.cols \cup {"remarks"},
          rows |-> [k \in 1..Len(frame.rows) |->
                       [c \in frame.cols \cup {"remarks"} |->
                           IF c = "remarks" THEN "" ELSE frame.rows[k][c]]]]
    ELSE frame

\* the caller's frame once the processor of one config has run: every
\* processor reaches the frame through safe_filter and safe_aggregate, which
\* work on df.copy(), and writes its derived columns into the filtered copy
FrameAfter(config, frame) == frame

\* an append without the "if table" test: None is appended too
AppendTableUnchecked(done, table) ==
    IF ~table.ok THEN done
    ELSE IF table.none THEN Append(done, None)
    ELSE Append(done, table.val)

\* an insert at the front of the list instead of an append
AppendTableFront(done, table) ==
    IF table.ok /\ ~table.none THEN <<table.val>> \o done ELSE done

\* "if table: tables.append(table)"; an exception is logged and the loop continues
AppendTable(done, table) == IF table.ok /\ ~table.none THEN Append(done, table.val) ELSE done

\* an iteration without its own try/except: the exception of a table
\* reaches the outer handler
ProcessConfigAbort ==
    /\ pc = "loop" /\ idx <= Len(table_configs)
    /\ IF _process_single_table(table_configs[idx], df, past_df).ok
       THEN /\ tables' = AppendTable(tables, _process_single_table(table_configs[idx], df, past_df))
            /\ idx' = idx + 1
            /\ UNCHANGED <<pc, outcome>>
       ELSE /\ pc' = "done" /\ outcome' = "raised"
            /\ UNCHANGED <<tables, idx>>
    /\ df' = FrameAfter(table_configs[idx], df)
    /\ past_df' = FrameAfter(table_configs[idx], past_df)
    /\ UNCHANGED <<tbl_cases, tbl_case_past, table_configs>>
    /\ UNCHANGED <<filter_vars, agg_vars, aux_vars>>

\* one iteration of "for config in table_configs"
ProcessConfig ==
    /\ pc = "loop" /\ idx <= Len(table_configs)
    /\ tables' = AppendTable(tables, _process_single_table(table_configs[idx], df, past_df))
    /\ idx' = idx + 1
    /\ df' = FrameAfter(table_configs[idx], df)
    /\ past_df' = FrameAfter(table_configs[idx], past_df)
    /\ UNCHANGED <<tbl_cases, tbl_case_past, table_configs, pc, outcome>>
    /\ UNCHANGED <<filter_vars, agg_vars, aux_vars>>

\* return tables
Return ==
    /\ pc = "loop" /\ idx > Len(table_configs)
    /\ pc' = "done" /\ outcome' = "returned"
    /\ UNCHANGED <<tbl_cases, tbl_case_past, table_configs, df, past_df, idx, tables>>
    /\ UNCHANGED <<filter_vars, agg_vars, aux_vars>>

Next == Load \/ ProcessConfig \/ Return

Spec == Init /\ [][Next]_vars

----------------------------------------------------------------------------
(* safe_filter applied to a frame, and again to its own result *)

FilterCell(column) ==
    IF column = "case_type" THEN {"Arbitration", "ARBITRATION", "Litigation", None}
    ELSE {0, 150500}

FilterRecs == {[case_type |-> t, ircon_claim |-> x] :
                  t \in FilterCell("case_type"), x \in FilterCell("ircon_claim")}

FilterFrames ==
    {EmptyFrame} \cup
    {[cols |-> {"case_type", "ircon_claim"}, rows |-> rs] :
        rs \in SeqsUpTo(FilterRecs, MaxFilterRows)}

FilterPairs ==
    {F("case_type", v) : v \in {Str("arbitration"), Str("Arbitration"),
                                List({"Arbitration", "Litigation"})}} \cup
    {F("ircon_claim", v) : v \in {Num(0), Num(150500), Str("150.5")}} \cup
    {F("region", Str("North")), F("zone", Num(1))}

\* a dict has each key once
FilterDicts ==
    {fs \in SeqsUpTo(FilterPairs, MaxFilters) :
        \A i, j \in 1..Len(fs) : i # j => fs[i].column # fs[j].column}

InitFilter ==
    /\ f_df \in FilterFrames
    /\ f_filters \in FilterDicts
    /\ f_case_sensitive \in BOOLEAN
    /\ f_once = NotRun /\ f_twice = NotRun /\ f_pc = "start"
    /\ BuildIdle /\ AggIdle /\ AuxIdle

FilterOnce ==
    /\ f_pc = "start"
    /\ f_once' = safe_filter(f_df, f_filters, f_case_sensitive)
    /\ f_pc' = "once"
    /\ UNCHANGED <<f_df, f_filters, f_case_sensitive, f_twice>>
    /\ UNCHANGED <<build_vars, agg_vars, aux_vars>>

FilterTwice ==
    /\ f_pc = "once" /\ f_once.ok
    /\ f_twice' = safe_filter(f_once.val, f_filters, f_case_sensitive)
    /\ f_pc' = "twice"
    /\ UNCHANGED <<f_df, f_filters, f_case_sensitive, f_once>>
    /\ UNCHANGED <<build_vars, agg_vars, aux_vars>>

NextFilter == FilterOnce \/ FilterTwice

SpecFilter == InitFilter /\ [][NextFilter]_vars

----------------------------------------------------------------------------
(* safe_aggregate applied to a frame *)

AggRecs == {[borne_by |-> b, ircon_claim |-> x, contractor_claim |-> y] :
               b \in {"Client", "Ircon", "Other", None},
               x \in {0, 150500}, y \in {0, 100000}}

AggFrames ==
    {EmptyFrame} \cup
    {[cols |-> {"borne_by", "ircon_claim", "contractor_claim"}, rows |-> rs] :
        rs \in SeqsUpTo(AggRecs, MaxAggRows)}

InitAgg ==
    /\ a_df \in AggFrames
    /\ a_columns \in {{"ircon_claim", "contractor_claim"}, {"ircon_claim"},
                      {"ircon_claim", "client_claim"}}
    /\ a_group_by \in {"borne_by", "user_type"}
    /\ a_out = NotRun /\ a_pc = "start"
    /\ BuildIdle /\ FilterIdle /\ AuxIdle

Aggregate ==
    /\ a_pc = "start"
    /\ a_out' = safe_aggregate(a_df, a_columns, a_group_by)
    /\ a_pc' = "done"
    /\ UNCHANGED <<a_df, a_columns, a_group_by>>
    /\ UNCHANGED <<build_vars, filter_vars, aux_vars>>

NextAgg == Aggregate

SpecAgg == InitAgg /\ [][NextAgg]_vars


----------------------------------------------------------------------------
(* Properties of the report build, the aggregation and the filter *)

ScenarioRun ==
    /\ tbl_cases = ListInput(<<RecScenario>>)
    /\ tbl_case_past = ListInput(<<>>)
    /\ table_configs = <<Config("arb_contractor")>>

\* C1: built from the one current record {Arbitration, Contractor, Ircon,
\* ircon_claim 150.5, contractor_claim 0}, an empty past collection and the
\* single config arb_contractor, the report is one table whose row
\* "IRCON's Claims on Contractor" / "Nos." has pendency_ircon 1,
\* pendency_client 0 and pendency_total 1, and whose "Amt in Crs." row has
\* pendency_ircon 150.5.
C1_ScenarioTable ==
    (pc = "done" /\ ScenarioRun) =>
        /\ outcome = "returned"
        /\ Len(tables) = 1
        /\ \E k \in 1..Len(tables[1].data.rows) :
              /\ tables[1].data.rows[k].category = "IRCON's Claims on Contractor"
              /\ tables[1].data.rows[k].metric = "Nos."
              /\ tables[1].data.rows[k].pendency_ircon = 1
              /\ tables[1].data.rows[k].pendency_client = 0
              /\ tables[1].data.rows[k].pendency_total = 1
        /\ \E k \in 1..Len(tables[1].data.rows) :
              /\ tables[1].data.rows[k].category = "IRCON's Claims on Contractor"
              /\ tables[1].data.rows[k].metric = "Amt in Crs."
              /\ tables[1].data.rows[k].pendency_ircon = 150500

ExpectedGroups == {"Client", "Ircon", "total"}

Aggregated ==
    /\ a_pc = "done"
    /\ ~IsEmpty(a_df)
    /\ a_columns \subseteq a_df.cols
    /\ a_group_by \in a_df.cols

\* C2 as stated: the table returned by the aggregation has the keys Client,
\* Ircon and total for every input record collection, the empty one included.
C2_KeysForEveryInput ==
    (a_pc = "done" /\ a_out.ok) => ExpectedGroups \subseteq DOMAIN a_out.val

\* C2: for every non-empty input record collection that has the group-by
\* column and every listed numeric column, the aggregation returns a table
\* that has the keys Client, Ircon and total, also when no record is borne by
\* Client or by Ircon.
C2_KeysWhenAggregated ==
    Aggregated => (a_out.ok /\ ExpectedGroups \subseteq DOMAIN a_out.val)

C2_NoExpectedGroupInInput ==
    /\ Aggregated
    /\ \A k \in 1..Len(a_df.rows) : a_df.rows[k].borne_by \in {"Other", None}
    /\ a_out.ok
    /\ ExpectedGroups \subseteq DOMAIN a_out.val

\* the value a caller reads from the table: 0 where the group or pair is absent
TableValue(table, g, p) ==
    IF g \in DOMAIN table THEN (IF p \in DOMAIN table[g] THEN table[g][p] ELSE 0) ELSE 0

\* the rows of the input that are borne by one of the groups gs
BorneBy(gs) == SelectSeq(a_df.rows, LAMBDA r : r[a_group_by] \in gs)

NonZeroCount(rows, c) == Len(SelectSeq(rows, LAMBDA r : r[c] # 0))

ColumnTotal(rows, c) == SeqSum([k \in 1..Len(rows) |-> rows[k][c]])

\* C3: for every non-empty input and every (column, statistic) pair with
\* statistic count or sum, the value of the total group is the value of the
\* Client group plus the value of the Ircon group; the records borne by anyone
\* else, or by no one, add nothing to it.
C3_TotalIsClientPlusIrcon ==
    (a_pc = "done" /\ ~IsEmpty(a_df) /\ a_out.ok) =>
        /\ \A c \in a_df.cols \cup a_columns : \A stat \in Stats :
              TableValue(a_out.val, "total", <<c, stat>>) =
                  TableValue(a_out.val, "Client", <<c, stat>>)
                  + TableValue(a_out.val, "Ircon", <<c, stat>>)
        /\ Aggregated =>
              \A c \in a_columns :
                  /\ a_out.val["total"][<<c, "sum">>] = ColumnTotal(BorneBy({"Client", "Ircon"}), c)
                  /\ a_out.val["total"][<<c, "count">>] = NonZeroCount(BorneBy({"Client", "Ircon"}), c)

C3_OtherBearerBesideClient ==
    /\ Aggregated /\ a_out.ok
    /\ \E i, j \in 1..Len(a_df.rows) :
          /\ a_df.rows[i].borne_by = "Other" /\ a_df.rows[i].ircon_claim = 150500
          /\ a_df.rows[j].borne_by = "Client" /\ a_df.rows[j].ircon_claim = 150500
    /\ a_out.val["total"][<<"ircon_claim", "sum">>] = 150500
    /\ a_out.val["total"][<<"ircon_claim", "count">>] = 1

\* C4: for every group and every listed numeric column, count is the number
\* of the group's records whose value in that column is not zero, and sum is
\* the sum of that column over all the group's records; one record with
\* ircon_claim 0 gives its group count 0 and sum 0.
C4_CountSkipsZeroSumTakesAll ==
    (Aggregated /\ a_out.ok) =>
        \A g \in DOMAIN a_out.val \ {"total"} : \A c \in a_columns :
            /\ a_out.val[g][<<c, "count">>] = NonZeroCount(BorneBy({g}), c)
            /\ a_out.val[g][<<c, "sum">>] = ColumnTotal(BorneBy({g}), c)

C4_OneZeroClaim ==
    /\ Aggregated /\ a_out.ok
    /\ Len(a_df.rows) = 1
    /\ a_df.rows[1].borne_by = "Ircon" /\ a_df.rows[1].ircon_claim = 0
    /\ a_out.val["Ircon"][<<"ircon_claim", "count">>] = 0
    /\ a_out.val["Ircon"][<<"ircon_claim", "sum">>] = 0

\* C5: filtering the result of a filter again by the same filters, with the
\* same case sensitivity, returns that result unchanged, whenever the first
\* filtering does not raise.
C5_FilterIdempotent ==
    (f_pc = "twice") => (f_twice.ok /\ f_twice.val = f_once.val)

C5_FilterKeptSomeDroppedSome ==
    /\ f_pc = "twice"
    /\ f_filters # <<>>
    /\ Len(f_once.val.rows) > 0
    /\ Len(f_once.val.rows) < Len(f_df.rows)
    /\ f_twice.ok

\* the assembler the router binds to each report type
OwnAssembler(table_type) ==
    CASE table_type = "arb_lit_contractor" -> process_arb_lit_contractor(df, past_df)
      [] table_type = "arb_contractor" -> process_arb_contractor(df, past_df)
      [] table_type = "court_contractor" -> process_court_contractor(df, past_df)
      [] table_type = "rev_arb_contractor" -> process_revised_cases(df, "Arbitration", "Contractor")
      [] table_type = "rev_court_contractor" -> process_revised_cases(df, "Litigation", "Contractor")
      [] table_type = "close_arb_contractor" -> process_closed_cases(df, "Arbitration", "Contractor")
      [] table_type = "close_court_contractor" -> process_closed_cases(df, "Litigation", "Contractor")
      [] table_type = "close_court_client" -> process_closed_client_cases(df, "Litigation")
      [] table_type = "arb_lit_client" -> process_arb_lit_client(df, past_df)

KnownType(config) == "type" \in DOMAIN config /\ config.type \in KnownTypes

UnknownType(config) == "type" \in DOMAIN config /\ config.type \notin KnownTypes

Succeeds(config) == KnownType(config) /\ OwnAssembler(config.type).ok

AssemblerRaises(config) == KnownType(config) /\ ~OwnAssembler(config.type).ok

\* both collections can be turned into frames
Loadable == tbl_cases.kind # "invalid" /\ tbl_case_past.kind # "invalid"

TitlesOf(entries) == [k \in 1..Len(entries) |-> entries[k].title]

\* C6: a config whose type is unknown to the router gives no output entry
\* and raises nothing: the build returns, and every other config of the list
\* whose assembler succeeds still has its entry.
C6_UnknownTypeSkipped ==
    (pc = "done" /\ Loadable /\ \E k \in 1..Len(table_configs) : UnknownType(table_configs[k])) =>
        /\ outcome = "returned"
        /\ Len(tables) = Len(SelectSeq(table_configs, Succeeds))
        /\ \A k \in 1..Len(table_configs) :
              /\ UnknownType(table_configs[k]) =>
                    \A j \in 1..Len(tables) : tables[j].title # table_configs[k].title
              /\ Succeeds(table_configs[k]) =>
                    \E j \in 1..Len(tables) : tables[j].title = table_configs[k].title

C6_UnknownBesideSucceeding ==
    /\ pc = "done" /\ outcome = "returned"
    /\ \E k \in 1..Len(table_configs) : UnknownType(table_configs[k])
    /\ \E k \in 1..Len(table_configs) : Succeeds(table_configs[k])
    /\ Len(tables) = 1

\* the display alias of each report type
DisplayAlias(table_type) ==
    CASE table_type = "court_contractor" -> "arb_contractor"
      [] table_type = "rev_court_contractor" -> "rev_arb_contractor"
      [] table_type = "close_court_client" -> "close_court_contractor"
      [] table_type \in {"arb_lit_contractor", "arb_contractor", "rev_arb_contractor",
                         "close_arb_contractor", "close_court_contractor",
                         "arb_lit_client"} -> table_type

EntriesOf(surviving) ==
    /\ Len(tables) = Len(surviving)
    /\ \A k \in 1..Len(surviving) :
          /\ tables[k].type = DisplayAlias(surviving[k].type)
          /\ tables[k].data = OwnAssembler(surviving[k].type).val

\* C7: the type of every output entry is the display alias of the requested
\* type (court_contractor gives arb_contractor, rev_court_contractor gives
\* rev_arb_contractor, close_court_client gives close_court_contractor, every
\* other type gives itself), and the data of the entry is what the requested
\* type's own assembler computes.
C7_EntryTypeIsDisplayAlias ==
    (pc = "done" /\ outcome = "returned") => EntriesOf(SelectSeq(table_configs, Succeeds))

C7_AliasedEntry ==
    /\ pc = "done" /\ outcome = "returned"
    /\ Len(table_configs) = 2 /\ Len(tables) = 2
    /\ table_configs[1].type = "close_court_client"
    /\ tables[1].type = "close_court_contractor"
    /\ tables[1].data = process_closed_client_cases(df, "Litigation").val
    /\ table_configs[2].type = "rev_court_contractor"
    /\ tables[2].type = "rev_arb_contractor"
    /\ tables[2].data = process_revised_cases(df, "Litigation", "Contractor").val

\* C8: when the assembler of one config raises, only that config's table is
\* dropped: the loop goes on to every later config and the build returns the
\* tables of all the configs whose assembler succeeded; it never ends in an
\* error because of one table.
C8_FailedTableDroppedOnly ==
    (pc \in {"loop", "done"} /\ Loadable) =>
        /\ outcome # "raised"
        /\ TitlesOf(tables) = TitlesOf(SelectSeq(SubSeq(table_configs, 1, idx - 1), Succeeds))
        /\ (pc = "done") => (outcome = "returned" /\ idx = Len(table_configs) + 1)

C8_LaterConfigAfterFailure ==
    /\ pc = "done" /\ outcome = "returned"
    /\ Len(table_configs) = 2
    /\ AssemblerRaises(table_configs[1])
    /\ Succeeds(table_configs[2])
    /\ TitlesOf(tables) = <<table_configs[2].title>>

\* C9: when the current or the past collection is None or structurally
\* invalid, the build raises a single fatal error and never returns an empty
\* table list.
C9_FatalOnMissingCollection ==
    (pc = "done" /\ (tbl_cases.kind # "list" \/ tbl_case_past.kind # "list")) =>
        outcome = "raised"

\* C10: with an empty list of configs the build returns an empty list of
\* tables and raises nothing, for every pair of input collections.
C10_NoConfigsNoTables ==
    (pc = "done" /\ table_configs = <<>> /\ Loadable) =>
        (outcome = "returned" /\ tables = <<>>)

C10_EmptyConfigsOnRecords ==
    /\ pc = "done" /\ table_configs = <<>>
    /\ tbl_cases.kind = "list" /\ tbl_cases.items # <<>>
    /\ tbl_case_past.kind = "list" /\ tbl_case_past.items # <<>>
    /\ outcome = "returned" /\ tables = <<>>

\* the entry the router packages for one config
EntryOf(config) ==
    [type |-> DisplayAlias(config.type),
     title |-> config.title,
     data |-> OwnAssembler(config.type).val]

\* C11: the output list keeps the order of the configs and is one-to-one with
\* the configs that succeeded: each iteration of the loop leaves the list as
\* it is when its config did not succeed and otherwise adds exactly one entry
\* at the end, that config's own entry with that config's title; so a config
\* listed twice gives two entries.
C11_OneEntryPerConfigInOrder ==
    [][(pc = "loop" /\ idx' = idx + 1) =>
          IF Succeeds(table_configs[idx])
          THEN tables' = Append(tables, EntryOf(table_configs[idx]))
          ELSE tables' = tables]_vars

C11_SameConfigTwice ==
    /\ pc = "done" /\ outcome = "returned"
    /\ Len(table_configs) = 2
    /\ table_configs[1] = table_configs[2]
    /\ Len(tables) = 2
    /\ tables[1] = tables[2]
    /\ tables[1].title = table_configs[1].title

\* a cell equals the text ignoring letter case
SameIgnoringCase(cell, text) == cell # None /\ Lower(cell) = Lower(text)

\* a record satisfies a predicate on a text field with letter case ignored:
\* a scalar by equality, a list by equality with one of its members
MatchesIgnoringCase(cell, value) ==
    IF value.kind = "str" THEN SameIgnoringCase(cell, value.s)
    ELSE \E member \in value.items : SameIgnoringCase(cell, member)

\* C12: with case_sensitive false the filter compares text ignoring letter
\* case, for a scalar predicate and for every member of a list predicate: the
\* result of one predicate on a text field holds exactly the records whose
\* value equals the scalar, or some member of the list, ignoring case.
C12_CaseIgnoredForScalarAndList ==
    (/\ f_pc = "once" /\ ~f_case_sensitive /\ f_once.ok
     /\ Len(f_filters) = 1
     /\ f_filters[1].column = "case_type" /\ "case_type" \in f_df.cols
     /\ f_filters[1].value.kind \in {"str", "list"}) =>
        f_once.val.rows =
            SelectSeq(f_df.rows,
                      LAMBDA r : MatchesIgnoringCase(r.case_type, f_filters[1].value))

\* the scalar half of C12, which the code does satisfy
C12_CaseIgnoredForScalar ==
    (/\ f_pc = "once" /\ ~f_case_sensitive /\ f_once.ok
     /\ Len(f_filters) = 1
     /\ f_filters[1].column = "case_type" /\ "case_type" \in f_df.cols
     /\ f_filters[1].value.kind = "str") =>
        f_once.val.rows =
            SelectSeq(f_df.rows,
                      LAMBDA r : MatchesIgnoringCase(r.case_type, f_filters[1].value))

\* the predicates of the filter that name a field of the records
KnownPredicates == SelectSeq(f_filters, LAMBDA f : f.column \in f_df.cols)

\* the record satisfies one predicate on a field it has
Satisfies(r, f, case_sensitive) ==
    IF f.value.kind = "str" /\ ~case_sensitive THEN MatchLower(r[f.column], f.value)
    ELSE IF f.value.kind = "list" THEN MatchIsin(f.column, r[f.column], f.value)
    ELSE MatchEq(f.column, r[f.column], f.value)

\* a predicate the filter cannot evaluate: text matching on a numeric field
Unusable(f, case_sensitive) ==
    f.value.kind = "str" /\ ~case_sensitive /\ f.column \in NumericCols

SatisfiesAll(r, known, case_sensitive) ==
    \A k \in 1..Len(known) : Satisfies(r, known[k], case_sensitive)

UnknownSkipped(known) ==
    /\ f_once.ok <=> (\A k \in 1..Len(known) : ~Unusable(known[k], f_case_sensitive))
    /\ f_once.ok =>
          /\ f_once.val.cols = f_df.cols
          /\ f_once.val.rows =
                 SelectSeq(f_df.rows, LAMBDA r : SatisfiesAll(r, known, f_case_sensitive))
    /\ (known = <<>>) => (f_once.ok /\ f_once.val = f_df)

\* C13: a predicate that names a field the records do not have is skipped
\* without failure: the result is exactly the records that satisfy all the
\* remaining predicates, and it is every input record when every predicate
\* names an unknown field.
C13_UnknownFieldSkipped ==
    (f_pc = "once") => UnknownSkipped(KnownPredicates)

C13_UnknownBesideKnown ==
    /\ f_pc = "once" /\ f_once.ok
    /\ Len(f_filters) = 2
    /\ f_filters[1].column = "region"
    /\ f_filters[2].column = "case_type"
    /\ Len(f_once.val.rows) = 1
    /\ Len(f_df.rows) = 2

----------------------------------------------------------------------------
(* safe_get_value applied to a nested mapping *)

GetKeys == {<<"pendency">>, <<"Ircon">>}

\* a key that no mapping of GetData has
AbsentKey == <<"total">>

GetLeaves == {Leaf(0), Leaf(150500), EmptyDict}

DictsOver(nodes) == {Dict(f) : f \in UNION {[ks -> nodes] : ks \in SUBSET GetKeys \ {{}}}}

GetInner == GetLeaves \cup DictsOver(GetLeaves)

\* the mappings, two levels deep, and the values that are no mapping
GetData == GetInner \cup DictsOver(GetInner)

InitGet ==
    /\ g_data \in GetData
    /\ g_keys \in SeqsUpTo(GetKeys \cup {AbsentKey}, MaxKeys)
    /\ g_default \in {Leaf(0), Leaf(-1)}
    /\ g_out = Leaf(0) /\ g_pc = "start"
    /\ BuildIdle /\ FilterIdle /\ AggIdle /\ AsmIdle /\ SharedIdle /\ MoreIdle

GetValue ==
    /\ g_pc = "start"
    /\ g_out' = safe_get_value(g_data, g_keys, g_default)
    /\ g_pc' = "done"
    /\ UNCHANGED <<g_data, g_keys, g_default>>
    /\ UNCHANGED <<build_vars, filter_vars, agg_vars, asm_vars, shared_vars, more_vars>>

NextGet == GetValue

SpecGet == InitGet /\ [][NextGet]_vars

\* the value stored under a key path, when every key of the path is present
\* and every value on the way is a mapping
RECURSIVE Stored(_, _)
Stored(node, keys) ==
    IF keys = <<>> THEN [found |-> TRUE, val |-> node]
    ELSE IF node.kind # "dict" THEN [found |-> FALSE]
    ELSE IF Head(keys) \notin DOMAIN node.items THEN [found |-> FALSE]
    ELSE Stored(node.items[Head(keys)], Tail(keys))

ValueOrDefault(stored, default) ==
    IF stored.found THEN (IF stored.val = EmptyDict THEN default ELSE stored.val)
    ELSE default

\* C15: safe_get_value never raises: it returns the value found by walking
\* the keys in order, and the default when a key of the path is absent, when a
\* value on the way is no mapping, or when the value reached is an empty
\* mapping; a stored 0 is returned as 0.
C15_ValueOrDefault ==
    (g_pc = "done") => (g_out = ValueOrDefault(Stored(g_data, g_keys), g_default))

C15_StoredZeroReturned ==
    /\ g_pc = "done"
    /\ Len(g_keys) = 2
    /\ Stored(g_data, g_keys).found
    /\ Stored(g_data, g_keys).val = Leaf(0)
    /\ g_default = Leaf(-1)
    /\ g_out = Leaf(0)

\* C16: safe_aggregate returns an empty table and does not raise when the
\* record collection is empty, and likewise when the listed numeric columns
\* name a column that the non-empty records do not have.
C16_EmptyTableOnEmptyOrMissingColumn ==
    (a_pc = "done" /\ (IsEmpty(a_df) \/ ~(a_columns \subseteq a_df.cols))) =>
        (a_out.ok /\ DOMAIN a_out.val = {})

C16_MissingColumnOnRecords ==
    /\ a_pc = "done"
    /\ Len(a_df.rows) = 2
    /\ "client_claim" \in a_columns /\ "client_claim" \notin a_df.cols
    /\ a_out.ok /\ DOMAIN a_out.val = {}

LitigationListings == {"rev_court_contractor", "close_court_contractor", "close_court_client"}

\* the current records a Litigation listing shows, in input order
ListedRecords(table_type) ==
    SelectSeq(df.rows, LAMBDA r :
        /\ SameIgnoringCase(r.case_type, "Litigation")
        /\ SameIgnoringCase(r.user_type,
                            IF table_type = "close_court_client" THEN "Client" ELSE "Contractor")
        /\ SameIgnoringCase(r.case_status,
                            IF table_type = "rev_court_contractor" THEN "Accreted" ELSE "Closed"))

\* columns 4 and 5 of a listing row are the two composite texts of its record
CompositeTexts(rows, records) ==
    /\ Len(rows) = Len(records)
    /\ \A k \in 1..Len(records) :
          /\ rows[k][4] = FloatStr(records[k].contractor_claim) \o " "
                              \o FloatStr(records[k].award_amount_contractor)
          /\ rows[k][5] = FloatStr(records[k].ircon_claim) \o " "
                              \o FloatStr(records[k].award_amount_ircon)

\* C18: in the listing reports over Litigation cases, contractor_claim_or_award
\* of each row is the text of contractor_claim, one space, the text of
\* award_amount_contractor, and ircon_claim_or_award is the text of
\* ircon_claim, one space, the text of award_amount_ircon; the amounts are
\* never added or combined as numbers.
C18_CompositeIsTextOfBoth ==
    [][(/\ pc = "loop" /\ idx' = idx + 1
        /\ KnownType(table_configs[idx])
        /\ table_configs[idx].type \in LitigationListings
        /\ Len(tables') = Len(tables) + 1) =>
          CompositeTexts(tables'[Len(tables')].data.rows,
                         ListedRecords(table_configs[idx].type))]_vars

C18_ClaimAndAwardSideBySide ==
    /\ pc = "done" /\ outcome = "returned"
    /\ Len(table_configs) = 1 /\ Len(tables) = 1
    /\ table_configs[1].type = "close_court_contractor"
    /\ Len(tables[1].data.rows) = 1
    /\ tables[1].data.rows[1][4] = "100.0 90.0"
    /\ tables[1].data.rows[1][5] = "0.0 0.0"

----------------------------------------------------------------------------
(* One processor called directly on a current frame and a past frame *)

RecArbClientInProgress == Case("Arbitration", "Contractor", "Client", "In Progress", 0, 100000, 0, 0)
RecArbClosed == Case("Arbitration", "Contractor", "Ircon", "Closed", 20000, 0, 10000, 0)
RecLitInProgress == Case("Litigation", "Contractor", "Ircon", "In Progress", 75250, 1234, 0, 0)
\* a case with a client: no claim of Ircon, a counter-claim of the client of 40.0
RecArbClientClaim ==
    [Case("Arbitration", "Client", "Client", "In Progress", 0, 0, 0, 0) EXCEPT !.client_claim = 40000]

AsmRecs == {RecScenario, RecInProgress, RecArbClientInProgress, RecArbClosed,
            RecLitInProgress, RecLitClosed, RecLitAccreted, RecClientClosed,
            RecArbClientClaim}

\* the current frames: load_cases_data of a list of records
AsmFrames ==
    {EmptyFrame} \cup
    {[cols |-> CaseCols, rows |-> rs] : rs \in SeqsUpTo(AsmRecs, MaxAsmRows) \ {<<>>}}

\* the columns of load_joined_cases_data: the past record with case_type,
\* user_type and borne_by merged in from the current record of the same case
JoinedCols == PastCols \cup {"case_type", "user_type", "borne_by"}

Joined(past, case_type, user_type, borne_by) ==
    [c \in JoinedCols |->
        CASE c = "case_type" -> case_type
          [] c = "user_type" -> user_type
          [] c = "borne_by" -> borne_by
          [] OTHER -> past[c]]

JoinedRecs == {Joined(PastInProgress, "Arbitration", "Contractor", "Ircon"),
               Joined(PastInProgress, "Litigation", "Contractor", "Client"),
               Joined(PastClosed, "Arbitration", "Contractor", "Client"),
               Joined(PastClosed, "Arbitration", "Client", "Ircon")}

\* the past record with borne_by alone merged in
WithBearer(past, borne_by) ==
    [c \in PastCols \cup {"borne_by"} |-> IF c = "borne_by" THEN borne_by ELSE past[c]]

\* the past frames: none, load_past_cases_data, the joined frame, and a frame
\* that has borne_by but neither case_type nor user_type
AsmPastFrames ==
    {EmptyFrame} \cup
    {[cols |-> PastCols, rows |-> rs] : rs \in {<<PastInProgress>>, <<PastInProgress, PastClosed>>}} \cup
    {[cols |-> JoinedCols, rows |-> rs] : rs \in SeqsUpTo(JoinedRecs, MaxAsmRows) \ {<<>>}} \cup
    {[cols |-> PastCols \cup {"borne_by"}, rows |-> <<WithBearer(PastInProgress, "Ircon")>>]}

InitAsm ==
    /\ s_type \in KnownTypes
    /\ s_df \in AsmFrames
    /\ s_past_df \in AsmPastFrames
    /\ s_out = NotRun /\ s_pc = "start"
    /\ BuildIdle /\ FilterIdle /\ AggIdle /\ GetIdle /\ SharedIdle /\ MoreIdle

\* processor_map[table_type]() on the two frames
CallProcessor ==
    /\ s_pc = "start"
    /\ s_out' = processor_map(s_type, s_df, s_past_df)
    /\ s_pc' = "done"
    /\ UNCHANGED <<s_type, s_df, s_past_df>>
    /\ UNCHANGED <<build_vars, filter_vars, agg_vars, get_vars, shared_vars, more_vars>>

NextAsm == CallProcessor

SpecAsm == InitAsm /\ [][NextAsm]_vars

PositionReports == {"arb_contractor", "court_contractor"}

ReportCaseType(table_type) ==
    IF table_type = "arb_contractor" THEN "Arbitration" ELSE "Litigation"

\* the current records of the report's case type with user type Contractor,
\* whatever their status
UnfilteredCurrent(table_type) ==
    SelectSeq(s_df.rows, LAMBDA r :
        /\ SameIgnoringCase(r.case_type, ReportCaseType(table_type))
        /\ SameIgnoringCase(r.user_type, "Contractor"))

RowColumn(row) ==
    IF row.category = "IRCON's Claims on Contractor" THEN "ircon_claim" ELSE "contractor_claim"

\* the cell of a row for the records of one bearer: a count of the non-zero
\* values for "Nos.", the rounded sum for "Amt in Crs."
ExpectedCell(row, records) ==
    IF row.metric = "Nos." THEN NonZeroCount(records, RowColumn(row))
    ELSE Round2(ColumnTotal(records, RowColumn(row)))

BorneAmong(records, gs) == SelectSeq(records, LAMBDA r : r.borne_by \in gs)

PendencyOver(rows, records) ==
    \A k \in 1..Len(rows) :
        /\ rows[k].pendency_client = ExpectedCell(rows[k], BorneAmong(records, {"Client"}))
        /\ rows[k].pendency_ircon = ExpectedCell(rows[k], BorneAmong(records, {"Ircon"}))
        /\ rows[k].pendency_total = ExpectedCell(rows[k], BorneAmong(records, {"Client", "Ircon"}))

\* C19: in arb_contractor and court_contractor the pendency bucket aggregates
\* every current record that has the report's case_type and user_type
\* Contractor, whatever its case_status, an absent status included: no status
\* predicate is applied to pendency.
C19_PendencyUnfiltered ==
    (s_pc = "done" /\ s_type \in PositionReports /\ s_out.ok) =>
        PendencyOver(s_out.val.rows, UnfilteredCurrent(s_type))

\* what the code computes instead: pendency over the records In Progress only
C19_PendencyInProgressOnly ==
    (s_pc = "done" /\ s_type \in PositionReports /\ s_out.ok) =>
        PendencyOver(s_out.val.rows,
                     SelectSeq(UnfilteredCurrent(s_type),
                               LAMBDA r : SameIgnoringCase(r.case_status, "In Progress")))

\* C20: in arb_contractor and court_contractor, when a sub-aggregation cannot
\* be computed because its collection lacks a needed column (a past collection
\* without borne_by, case_type or user_type, or an empty past collection), the
\* assembler does not fail: it returns its 4 rows with zero in every cell of
\* that bucket.
C20_MissingColumnGivesZeroBucket ==
    (/\ s_pc = "done" /\ s_type \in PositionReports
     /\ ~IsEmpty(s_df)
     /\ ~({"borne_by", "case_type", "user_type"} \subseteq s_past_df.cols)) =>
        /\ s_out.ok
        /\ Len(s_out.val.rows) = 4
        /\ \A k \in 1..4 :
              /\ s_out.val.rows[k].opening_client = 0
              /\ s_out.val.rows[k].opening_ircon = 0
              /\ s_out.val.rows[k].opening_total = 0

----------------------------------------------------------------------------
(* Several build calls on the one ReportService of server.py, interleaved *)

Calls == 1..NumCalls

Request(cases, past, configs) ==
    [tbl_cases |-> cases, tbl_case_past |-> past, table_configs |-> configs]

\* what the calls are given: requests that end in two tables, in one table
\* after a dropped one, in an error, and in one table of another report
Requests ==
    {Request(ListInput(<<RecLitClosed, RecLitAccreted>>), ListInput(<<PastInProgress>>),
             <<Config("close_court_contractor"), Config("rev_court_contractor")>>),
     Request(ListInput(<<RecLitClosed, RecLitAccreted>>), ListInput(<<PastInProgress>>),
             <<Config("arb_contractor"), Config("close_court_contractor")>>),
     Request(InvalidInput, ListInput(<<>>), <<Config("close_court_contractor")>>),
     Request(ListInput(<<RecClientClosed, RecLitClosed>>), NoneInput,
             <<Config("close_court_client")>>)}

InitShared ==
    /\ svc = ServiceInit
    /\ c_request \in [Calls -> Requests]
    /\ c_pc = [i \in Calls |-> "start"]
    /\ c_df = [i \in Calls |-> EmptyFrame]
    /\ c_past_df = [i \in Calls |-> EmptyFrame]
    /\ c_idx = [i \in Calls |-> 1]
    /\ c_tables = [i \in Calls |-> <<>>]
    /\ c_outcome = [i \in Calls |-> "none"]
    /\ BuildIdle /\ FilterIdle /\ AggIdle /\ GetIdle /\ AsmIdle /\ MoreIdle

\* the two loads of call i, into its own locals
SharedLoad(i) ==
    /\ c_pc[i] = "start"
    /\ IF load_cases_data(c_request[i].tbl_cases).ok
          /\ load_past_cases_data(c_request[i].tbl_case_past).ok
       THEN /\ c_df' = [c_df EXCEPT ![i] = load_cases_data(c_request[i].tbl_cases).val]
            /\ c_past_df' = [c_past_df EXCEPT
                                ![i] = load_past_cases_data(c_request[i].tbl_case_past).val]
            /\ c_pc' = [c_pc EXCEPT ![i] = "loop"]
            /\ UNCHANGED c_outcome
       ELSE /\ c_pc' = [c_pc EXCEPT ![i] = "done"]
            /\ c_outcome' = [c_outcome EXCEPT ![i] = "raised"]
            /\ UNCHANGED <<c_df, c_past_df>>
    /\ UNCHANGED <<svc, c_request, c_idx, c_tables>>
    /\ UNCHANGED <<build_vars, filter_vars, agg_vars, get_vars, asm_vars, more_vars>>

\* a loop iteration that keeps the tables in a list on the service
SharedProcessOnService(i) ==
    /\ c_pc[i] = "loop" /\ c_idx[i] <= Len(c_request[i].table_configs)
    /\ svc' = [a \in DOMAIN svc \cup {"tables"} |->
                 IF a = "tables"
                 THEN AppendTable(IF "tables" \in DOMAIN svc THEN svc.tables ELSE <<>>,
                                  _process_single_table(c_request[i].table_configs[c_idx[i]],
                                                        c_df[i], c_past_df[i]))
                 ELSE svc[a]]
    /\ c_tables' = [c_tables EXCEPT ![i] = svc'.tables]
    /\ c_idx' = [c_idx EXCEPT ![i] = @ + 1]
    /\ UNCHANGED <<c_request, c_pc, c_df, c_past_df, c_outcome>>
    /\ UNCHANGED <<build_vars, filter_vars, agg_vars, get_vars, asm_vars, more_vars>>

\* one iteration of the loop of call i, on its own tables list
SharedProcess(i) ==
    /\ c_pc[i] = "loop" /\ c_idx[i] <= Len(c_request[i].table_configs)
    /\ c_tables' = [c_tables EXCEPT
           ![i] = AppendTable(@, _process_single_table(c_request[i].table_configs[c_idx[i]],
                                                       c_df[i], c_past_df[i]))]
    /\ c_idx' = [c_idx EXCEPT ![i] = @ + 1]
    /\ UNCHANGED <<svc, c_request, c_pc, c_df, c_past_df, c_outcome>>
    /\ UNCHANGED <<build_vars, filter_vars, agg_vars, get_vars, asm_vars, more_vars>>

SharedReturn(i) ==
    /\ c_pc[i] = "loop" /\ c_idx[i] > Len(c_request[i].table_configs)
    /\ c_pc' = [c_pc EXCEPT ![i] = "done"]
    /\ c_outcome' = [c_outcome EXCEPT ![i] = "returned"]
    /\ UNCHANGED <<svc, c_request, c_df, c_past_df, c_idx, c_tables>>
    /\ UNCHANGED <<build_vars, filter_vars, agg_vars, get_vars, asm_vars, more_vars>>

NextShared == \E i \in Calls : SharedLoad(i) \/ SharedProcess(i) \/ SharedReturn(i)

SpecShared == InitShared /\ [][NextShared]_vars

----------------------------------------------------------------------------
(* Properties of the assemblers called on a current and a past frame *)

PeriodCategories == {"arb_val", "lit_val"}

CategoryOf(key) == IF key = "arb_val" THEN "Arbitration" ELSE "Litigation"

\* the record has the field and its text is the given one, letter case ignored
FieldIs(frame, r, field, text) == field \in frame.cols /\ SameIgnoringCase(r[field], text)

\* the past records of one case category whose user_type is Contractor
PastContractor(category) ==
    SelectSeq(s_past_df.rows, LAMBDA r :
        /\ FieldIs(s_past_df, r, "case_type", category)
        /\ FieldIs(s_past_df, r, "user_type", "Contractor"))

PastBorneBy(category, bearer) ==
    SelectSeq(PastContractor(category), LAMBDA r : FieldIs(s_past_df, r, "borne_by", bearer))

\* the old_q value of one category, computed from the past records of that
\* category and user type alone
PriorPeriodOf(category) ==
    << <<Len(PastContractor(category)), Len(PastBorneBy(category, "Ircon"))>>,
       <<format_currency(Num(ColumnTotal(PastBorneBy(category, "Client"), "contractor_claim"))),
         format_currency(Num(ColumnTotal(PastBorneBy(category, "Ircon"), "ircon_claim")))>> >>

\* C21: in arb_lit_contractor, for each case category (Arbitration,
\* Litigation) the prior-period case count counts only the past records of
\* that category whose user_type is Contractor, its second count only those of
\* them borne by Ircon, and the prior-period sums take only claims of such
\* records; a past record of another category or user type, or of none, never
\* adds to them.
C21_PriorPeriodOfCategoryOnly ==
    (s_pc = "done" /\ s_type = "arb_lit_contractor" /\ s_out.ok) =>
        \A key \in PeriodCategories : s_out.val.old_q[key] = PriorPeriodOf(CategoryOf(key))

\* what the code does satisfy: the same, for a past frame that carries
\* case_type, user_type and borne_by
C21_PriorPeriodWhenCategorised ==
    (/\ s_pc = "done" /\ s_type = "arb_lit_contractor" /\ s_out.ok
     /\ {"case_type", "user_type", "borne_by"} \subseteq s_past_df.cols) =>
        \A key \in PeriodCategories : s_out.val.old_q[key] = PriorPeriodOf(CategoryOf(key))

\* the four value positions of a row of arb_lit_client, after its two labels
ClientBuckets == <<"opening", "accreted", "closed", "pendency">>

\* a predicate of the bucket's filter on one record; a field the frame does not
\* have puts no condition on the record
Passes(frame, r, field, text) == field \notin frame.cols \/ SameIgnoringCase(r[field], text)

BucketFrame(bucket) == IF bucket = "pendency" THEN s_df ELSE s_past_df

\* the records of one bucket of one case category of arb_lit_client
ClientBucketRecords(bucket, category) ==
    SelectSeq(BucketFrame(bucket).rows, LAMBDA r :
        /\ Passes(BucketFrame(bucket), r, "case_type", category)
        /\ Passes(BucketFrame(bucket), r, "user_type", "Client")
        /\ (bucket = "accreted") => Passes(BucketFrame(bucket), r, "case_status", "Accreted")
        /\ (bucket = "closed") => Passes(BucketFrame(bucket), r, "case_status", "Closed"))

\* the first of the four rows of a case category
SectionBase(category) == IF category = "Arbitration" THEN 0 ELSE 4

\* the four cells of one bucket of one category: count and amount of the
\* claims of Ircon, count and amount of the claims of the client
BucketCells(rows, category, j) ==
    [k \in 1..4 |-> rows[SectionBase(category) + k][j + 2]]

\* C22: every count cell of arb_lit_client, in the rows of the claims of Ircon
\* and in the rows of the claims of the client alike and in every bucket, leaves
\* out the records whose claim is exactly 0, while the amount cell beside it is
\* the sum over all the records of the bucket, the zeros included.
C22_EveryCountSkipsZero ==
    (s_pc = "done" /\ s_type = "arb_lit_client" /\ s_out.ok) =>
        \A category \in {"Arbitration", "Litigation"} : \A j \in 1..4 :
            BucketCells(s_out.val.rows, category, j) =
                <<NonZeroCount(ClientBucketRecords(ClientBuckets[j], category), "ircon_claim"),
                  Round2(ColumnTotal(ClientBucketRecords(ClientBuckets[j], category), "ircon_claim")),
                  NonZeroCount(ClientBucketRecords(ClientBuckets[j], category), "client_claim"),
                  Round2(ColumnTotal(ClientBucketRecords(ClientBuckets[j], category), "client_claim"))>>

\* what the code does satisfy: the count of the claims of the client leaves
\* out the zeros, the count of the claims of Ircon is the number of records
C22_ClientCountSkipsZero ==
    (s_pc = "done" /\ s_type = "arb_lit_client" /\ s_out.ok) =>
        \A category \in {"Arbitration", "Litigation"} : \A j \in 1..4 :
            BucketCells(s_out.val.rows, category, j) =
                <<Len(ClientBucketRecords(ClientBuckets[j], category)),
                  Round2(ColumnTotal(ClientBucketRecords(ClientBuckets[j], category), "ircon_claim")),
                  NonZeroCount(ClientBucketRecords(ClientBuckets[j], category), "client_claim"),
                  Round2(ColumnTotal(ClientBucketRecords(ClientBuckets[j], category), "client_claim"))>>

ListingReports == {"rev_arb_contractor", "rev_court_contractor", "close_arb_contractor",
                   "close_court_contractor", "close_court_client"}

ListingCaseType(table_type) ==
    IF table_type \in {"rev_arb_contractor", "close_arb_contractor"}
    THEN "Arbitration" ELSE "Litigation"

ListingUserType(table_type) ==
    IF table_type = "close_court_client" THEN "Client" ELSE "Contractor"

ListingStatus(table_type) ==
    IF table_type \in {"rev_arb_contractor", "rev_court_contractor"}
    THEN "Accreted" ELSE "Closed"

\* the current records that match the case_type, user_type and status of a
\* listing report, in input order
MatchingRecords(table_type) ==
    SelectSeq(s_df.rows, LAMBDA r :
        /\ SameIgnoringCase(r.case_type, ListingCaseType(table_type))
        /\ SameIgnoringCase(r.user_type, ListingUserType(table_type))
        /\ SameIgnoringCase(r.case_status, ListingStatus(table_type)))

\* the fixed columns of a listing report over one record, then the empty remarks
ListingRow(table_type, r) ==
    CASE table_type = "rev_arb_contractor" ->
            <<r.claimant, r.case_pertain, r.borne_by, r.contractor_claim, r.ircon_claim, "">>
      [] table_type = "close_arb_contractor" ->
            <<r.claimant, r.case_pertain, r.borne_by, r.contractor_claim,
              r.award_amount_contractor, r.ircon_claim, r.award_amount_ircon, "">>
      [] OTHER ->
            <<r.claimant, r.case_pertain, r.borne_by,
              FloatStr(r.contractor_claim) \o " " \o FloatStr(r.award_amount_contractor),
              FloatStr(r.ircon_claim) \o " " \o FloatStr(r.award_amount_ircon), "">>

ListingOf(table_type) ==
    [k \in 1..Len(MatchingRecords(table_type)) |->
        ListingRow(table_type, MatchingRecords(table_type)[k])]

\* C23: each listing report (rev_arb_contractor, rev_court_contractor,
\* close_arb_contractor, close_court_contractor, close_court_client) returns
\* exactly one row per current record that matches its case_type, its
\* user_type and its status, in input order and no other row; every row is the
\* fixed columns of the report followed by an empty remarks value, and with no
\* matching record, an empty current collection included, the report returns
\* an empty row list and no error.
C23_OneRowPerMatchingRecord ==
    (s_pc = "done" /\ s_type \in ListingReports) =>
        (s_out.ok /\ s_out.val.rows = ListingOf(s_type))

\* what the code does satisfy: the same, for a current collection that holds
\* at least one record
C23_OneRowPerMatchingRecordOfSome ==
    (s_pc = "done" /\ s_type \in ListingReports /\ ~IsEmpty(s_df)) =>
        (s_out.ok /\ s_out.val.rows = ListingOf(s_type))

\* the (category, metric) labels of the rows of a payload, in order
RowLabels(rows) == [k \in 1..Len(rows) |-> <<rows[k].category, rows[k].metric>>]

ValueFields == {"opening_client", "opening_ircon", "opening_total",
                "accretion_client", "accretion_ircon", "accretion_total",
                "closed_client", "closed_ircon", "closed_total",
                "pendency_client", "pendency_ircon", "pendency_total"}

\* the value cells of a row
ValuesOf(row) == DOMAIN row \ {"category", "metric"}

\* C24: whenever arb_contractor or court_contractor returns a payload, the
\* payload has exactly 4 rows, in this order: (Contractor's Claims on IRCON,
\* Nos.), (Contractor's Claims on IRCON, Amt in Crs.), (IRCON's Claims on
\* Contractor, Nos.), (IRCON's Claims on Contractor, Amt in Crs.); this holds
\* for every input, also when every bucket is empty.
C24_FourRowsInOrder ==
    (s_pc = "done" /\ s_type \in PositionReports /\ s_out.ok) =>
        RowLabels(s_out.val.rows) =
            << <<"Contractor's Claims on IRCON", "Nos.">>,
               <<"Contractor's Claims on IRCON", "Amt in Crs.">>,
               <<"IRCON's Claims on Contractor", "Nos.">>,
               <<"IRCON's Claims on Contractor", "Amt in Crs.">> >>

C24_FourRowsOfEmptyBuckets ==
    /\ s_pc = "done" /\ s_type = "court_contractor" /\ s_out.ok
    /\ Len(s_df.rows) = 2 /\ Len(s_past_df.rows) = 2
    /\ Len(s_out.val.rows) = 4
    /\ \A k \in 1..4 : \A c \in ValuesOf(s_out.val.rows[k]) : s_out.val.rows[k][c] = 0

\* C25: no row of arb_contractor or court_contractor carries an
\* accretion_client or a closed_client cell: each row has 11 value fields,
\* taken from opening, accretion, closed and pendency each with client, ircon
\* and total, with accretion_client and closed_client left out.
C25_NoClientCellForAccretionAndClosed ==
    (s_pc = "done" /\ s_type \in PositionReports /\ s_out.ok) =>
        \A k \in 1..Len(s_out.val.rows) :
            /\ ValuesOf(s_out.val.rows[k]) \subseteq ValueFields
            /\ Cardinality(ValuesOf(s_out.val.rows[k])) = 11
            /\ "accretion_client" \notin ValuesOf(s_out.val.rows[k])
            /\ "closed_client" \notin ValuesOf(s_out.val.rows[k])

\* what the code does satisfy: every row has the twelve cells but
\* accretion_total
C25_AllCellsButAccretionTotal ==
    (s_pc = "done" /\ s_type \in PositionReports /\ s_out.ok) =>
        \A k \in 1..Len(s_out.val.rows) :
            ValuesOf(s_out.val.rows[k]) = ValueFields \ {"accretion_total"}

\* the two labels of each of the eight rows of arb_lit_client
ClientLabels ==
    << <<"Arbitration", "Claims by IRCON in Nos.">>,
       <<"Arbitration", "Claims Amt. by IRCON in Cr.">>,
       <<"Arbitration", "C/Claims by Clients in Nos.">>,
       <<"Arbitration", "C/Claims by Clients Amt. in Cr.">>,
       <<"Court", "Award in favour of IRCON in Nos.">>,
       <<"Court", "Award Amt. in favour of IRCON in Cr.">>,
       <<"Court", "Award in favour of Clients in Nos.">>,
       <<"Court", "Award/Claim Amt. in favour of Client in Cr.">> >>

\* the four cells a bucket gives from its records: all zero for no record
CellsOf(records) ==
    <<Len(records), Round2(ColumnTotal(records, "ircon_claim")),
      NonZeroCount(records, "client_claim"), Round2(ColumnTotal(records, "client_claim"))>>

\* C26: whenever arb_lit_client returns a payload, the payload has exactly 8
\* rows in a fixed order, 4 Arbitration rows and then 4 Court rows, each four
\* being IRCON count, IRCON amount, client count, client amount; each row
\* holds its two labels and then the values of opening, accreted, closed and
\* pendency in that order; a bucket with no matching record gives 0 in each of
\* its cells.
C26_EightRowsInOrder ==
    (s_pc = "done" /\ s_type = "arb_lit_client" /\ s_out.ok) =>
        /\ Len(s_out.val.rows) = 8
        /\ \A k \in 1..8 :
              /\ Len(s_out.val.rows[k]) = 6
              /\ SubSeq(s_out.val.rows[k], 1, 2) = ClientLabels[k]
        /\ \A category \in {"Arbitration", "Litigation"} : \A j \in 1..4 :
              /\ BucketCells(s_out.val.rows, category, j) =
                     CellsOf(ClientBucketRecords(ClientBuckets[j], category))
              /\ (ClientBucketRecords(ClientBuckets[j], category) = <<>>) =>
                     BucketCells(s_out.val.rows, category, j) = <<0, 0, 0, 0>>

C26_EmptyBucketBesideFilledOne ==
    /\ s_pc = "done" /\ s_type = "arb_lit_client" /\ s_out.ok
    /\ Len(s_out.val.rows) = 8
    /\ ClientBucketRecords("opening", "Arbitration") # <<>>
    /\ ClientBucketRecords("closed", "Arbitration") # <<>>
    /\ ClientBucketRecords("accreted", "Arbitration") = <<>>
    /\ ClientBucketRecords("pendency", "Arbitration") # <<>>
    /\ s_out.val.rows[4] = <<"Arbitration", "C/Claims by Clients Amt. in Cr.", 30000, 0, 30000, 40000>>

----------------------------------------------------------------------------
(* format_currency applied to one value *)

\* amounts in thousandths; a third decimal of 5 is left out, the direction
\* round() takes there depends on the binary value of the float
FmtAmounts == {n \in 0..MaxAmount : n % 10 # 5}

FmtValues ==
    {Num(n) : n \in FmtAmounts} \cup {NumText(n) : n \in FmtAmounts}
    \cup {Str("abc"), Str(""), NoValue, HugeInt}

InitFmt ==
    /\ m_value \in FmtValues
    /\ m_out = NotRun /\ m_pc = "start"
    /\ CoreIdle /\ RouteIdle /\ RetryIdle /\ DbIdle

FormatValue ==
    /\ m_pc = "start"
    /\ m_out' = format_currency_call(m_value)
    /\ m_pc' = "done"
    /\ UNCHANGED m_value
    /\ UNCHANGED <<core_vars, route_vars, retry_vars, db_vars>>

NextFmt == FormatValue

SpecFmt == InitFmt /\ [][NextFmt]_vars

\* a value that is not numeric: None, or text that is no number
NotNumeric(value) == value.kind \in {"none", "str"}

\* C27: format_currency never raises, and for an input that is not numeric
\* (None, non-numeric text) it returns the formatting of zero: the very string
\* it returns for the number 0.
C27_InvalidFormatsAsZero ==
    (m_pc = "done") =>
        /\ m_out.ok
        /\ NotNumeric(m_value) => m_out.val = format_currency(Num(0))

\* what the code does satisfy: a value that is not numeric gives the fixed
\* text with two decimals, the number 0 gives one decimal
C27_InvalidFormatsAsFixedText ==
    (m_pc = "done") =>
        /\ NotNumeric(m_value) => m_out = Ok(Glyph \o "0.00")
        /\ (m_value = Num(0)) => m_out = Ok(Glyph \o "0.0")
        /\ m_out.ok <=> m_value # HugeInt

----------------------------------------------------------------------------
(* The legacy router utils.build_report_tables and the loop of               *)
(* ReportService.build_report_tables run on the same config list             *)

\* table_type as the legacy if/elif chain leaves it: two branches assign the
\* alias, the branch of close_court_client only compares
LegacyOutputType(table_type) ==
    CASE table_type = "court_contractor" -> "arb_contractor"
      [] table_type = "rev_court_contractor" -> "rev_arb_contractor"
      [] OTHER -> table_type

\* the data of a legacy entry: what the get_<type>_data function of the branch
\* returns from the tables of the database
LegacyData(table_type) == [by |-> "get_" \o table_type \o "_data"]

RouteFrames ==
    {EmptyFrame, [cols |-> CaseCols, rows |-> <<RecClientClosed, RecLitClosed>>]}

InitRoute ==
    /\ r_configs \in ConfigLists
    /\ r_df \in RouteFrames
    /\ r_past_df = [cols |-> PastCols, rows |-> <<PastInProgress>>]
    /\ r_idx = 1 /\ r_legacy = <<>> /\ r_service = <<>>
    /\ r_pc = "legacy_load" /\ r_outcome = "none"
    /\ CoreIdle /\ FmtIdle /\ RetryIdle /\ DbIdle

\* df = load_cases_data(); past_df = load_joined_cases_data(): reads of the
\* database, which return or raise
LegacyLoad ==
    /\ r_pc = "legacy_load"
    /\ \E loaded \in BOOLEAN :
          IF loaded THEN r_pc' = "legacy" /\ UNCHANGED r_outcome
          ELSE r_pc' = "service" /\ r_outcome' = "raised"
    /\ UNCHANGED <<r_configs, r_df, r_past_df, r_idx, r_legacy, r_service>>
    /\ UNCHANGED <<core_vars, fmt_vars, retry_vars, db_vars>>

\* one iteration of the legacy loop; nothing catches the KeyError of
\* config["type"] or an exception of the data function
LegacyStep ==
    /\ r_pc = "legacy" /\ r_idx <= Len(r_configs)
    /\ \E computed \in BOOLEAN :
          IF "type" \notin DOMAIN r_configs[r_idx]
          THEN /\ r_pc' = "service" /\ r_outcome' = "raised"
               /\ r_legacy' = <<>> /\ r_idx' = 1
          ELSE IF r_configs[r_idx].type \notin KnownTypes
          THEN /\ r_idx' = r_idx + 1   \* else: continue
               /\ UNCHANGED <<r_pc, r_outcome, r_legacy>>
          ELSE IF ~computed
          THEN /\ r_pc' = "service" /\ r_outcome' = "raised"
               /\ r_legacy' = <<>> /\ r_idx' = 1
          ELSE /\ r_legacy' = Append(r_legacy,
                                     [type |-> LegacyOutputType(r_configs[r_idx].type),
                                      title |-> r_configs[r_idx].title,
                                      data |-> LegacyData(r_configs[r_idx].type)])
               /\ r_idx' = r_idx + 1
               /\ UNCHANGED <<r_pc, r_outcome>>
    /\ UNCHANGED <<r_configs, r_df, r_past_df, r_service>>
    /\ UNCHANGED <<core_vars, fmt_vars, retry_vars, db_vars>>

\* return tables; the same config list then goes to the service
LegacyReturn ==
    /\ r_pc = "legacy" /\ r_idx > Len(r_configs)
    /\ r_pc' = "service" /\ r_outcome' = "returned" /\ r_idx' = 1
    /\ UNCHANGED <<r_configs, r_df, r_past_df, r_legacy, r_service>>
    /\ UNCHANGED <<core_vars, fmt_vars, retry_vars, db_vars>>

\* one iteration of the loop of ReportService.build_report_tables
ServiceStep ==
    /\ r_pc = "service" /\ r_idx <= Len(r_configs)
    /\ r_service' = AppendTable(r_service,
                                _process_single_table(r_configs[r_idx], r_df, r_past_df))
    /\ r_idx' = r_idx + 1
    /\ UNCHANGED <<r_configs, r_df, r_past_df, r_legacy, r_pc, r_outcome>>
    /\ UNCHANGED <<core_vars, fmt_vars, retry_vars, db_vars>>

ServiceReturn ==
    /\ r_pc = "service" /\ r_idx > Len(r_configs)
    /\ r_pc' = "done"
    /\ UNCHANGED <<r_configs, r_df, r_past_df, r_idx, r_legacy, r_service, r_outcome>>
    /\ UNCHANGED <<core_vars, fmt_vars, retry_vars, db_vars>>

NextRoute == LegacyLoad \/ LegacyStep \/ LegacyReturn \/ ServiceStep \/ ServiceReturn

SpecRoute == InitRoute /\ [][NextRoute]_vars

\* the entries the two routers emitted for the same config have the same type;
\* a config is told by its title
SameTypePerConfig(titles) ==
    \A i \in 1..Len(r_legacy) : \A j \in 1..Len(r_service) :
        (r_legacy[i].title \in titles /\ r_legacy[i].title = r_service[j].title) =>
            r_legacy[i].type = r_service[j].type

UnknownSkippedByBoth ==
    \A k \in 1..Len(r_configs) :
        ("type" \in DOMAIN r_configs[k] /\ r_configs[k].type \notin KnownTypes) =>
            /\ \A i \in 1..Len(r_legacy) : r_legacy[i].title # r_configs[k].title
            /\ \A j \in 1..Len(r_service) : r_service[j].title # r_configs[k].title

\* C28: for each of the nine report types, the legacy router
\* utils.build_report_tables and ReportService._process_single_table emit the
\* same output type for a config of that type, the display alias,
\* close_court_client included; and both skip a config of unknown type without
\* emitting an entry.
C28_SameOutputType ==
    (r_pc = "done") =>
        /\ SameTypePerConfig({TitleOf(t) : t \in KnownTypes})
        /\ UnknownSkippedByBoth

\* what the code does satisfy: the same for the eight types other than
\* close_court_client
C28_SameOutputTypeButClientListing ==
    (r_pc = "done") =>
        /\ SameTypePerConfig({TitleOf(t) : t \in KnownTypes \ {"close_court_client"}})
        /\ UnknownSkippedByBoth

----------------------------------------------------------------------------
(* DatabaseConnection._retry_operation *)

\* how one invocation of the operation ends: it returns, it raises
\* OperationalError, or it raises another exception
Outcomes == {"ok", "OperationalError", "Exception"}

\* MAX_RETRIES = int(os.getenv(...)) and RETRY_DELAY = float(os.getenv(...)):
\* any integer and any float, nothing validates them
RetryCounts == (-1)..MaxRetries
RetryDelays == {-1, 1}

InitRetry ==
    /\ t_max_retries \in RetryCounts
    /\ t_retry_delay \in RetryDelays
    /\ t_outcomes \in [1..MaxRetries -> Outcomes]
    /\ t_attempt = 0 /\ t_calls = 0 /\ t_pc = "start" /\ t_result = "none"
    /\ CoreIdle /\ FmtIdle /\ RouteIdle /\ DbIdle

\* for attempt in range(max_retries): an empty range falls through to the end
\* of the function, which returns None
RetryEnter ==
    /\ t_pc = "start"
    /\ IF t_max_retries >= 1
       THEN t_pc' = "try" /\ UNCHANGED t_result
       ELSE t_pc' = "done" /\ t_result' = "None"
    /\ UNCHANGED <<t_max_retries, t_retry_delay, t_outcomes, t_attempt, t_calls>>
    /\ UNCHANGED <<core_vars, fmt_vars, route_vars, db_vars>>

\* try: return operation(*args, **kwargs), with its two except clauses
RetryInvoke ==
    /\ t_pc = "try"
    /\ t_calls' = t_calls + 1
    /\ CASE t_outcomes[t_calls + 1] = "ok" ->
                t_pc' = "done" /\ t_result' = "result"
         [] t_outcomes[t_calls + 1] = "OperationalError" ->
                IF t_attempt < t_max_retries - 1
                THEN t_pc' = "sleep" /\ UNCHANGED t_result
                ELSE t_pc' = "done" /\ t_result' = "DatabaseConnectionError"
         [] OTHER ->
                t_pc' = "done" /\ t_result' = "DataProcessingError"
    /\ UNCHANGED <<t_max_retries, t_retry_delay, t_outcomes, t_attempt>>
    /\ UNCHANGED <<core_vars, fmt_vars, route_vars, db_vars>>

\* time.sleep(retry_delay * (2 ** attempt)) inside the except clause: a
\* negative length raises ValueError, which leaves the function
RetrySleep ==
    /\ t_pc = "sleep"
    /\ IF t_retry_delay < 0
       THEN t_pc' = "done" /\ t_result' = "ValueError" /\ UNCHANGED t_attempt
       ELSE t_pc' = "try" /\ t_attempt' = t_attempt + 1 /\ UNCHANGED t_result
    /\ UNCHANGED <<t_max_retries, t_retry_delay, t_outcomes, t_calls>>
    /\ UNCHANGED <<core_vars, fmt_vars, route_vars, db_vars>>

NextRetry == RetryEnter \/ RetryInvoke \/ RetrySleep

SpecRetry == InitRetry /\ [][NextRetry]_vars

\* the contract of a finished call
RetryContract ==
    /\ t_calls >= 1 /\ t_calls <= t_max_retries
    /\ \A c \in 1..(t_calls - 1) : t_outcomes[c] = "OperationalError"
    /\ \/ t_result = "result" /\ t_outcomes[t_calls] = "ok"
       \/ /\ t_result = "DatabaseConnectionError"
          /\ t_outcomes[t_calls] = "OperationalError" /\ t_calls = t_max_retries
       \/ t_result = "DataProcessingError" /\ t_outcomes[t_calls] = "Exception"

\* C29: for every configured MAX_RETRIES and every sequence of outcomes of the
\* operation, _retry_operation invokes the operation at least once and at most
\* MAX_RETRIES times, invokes it again only after an OperationalError, and ends
\* either by returning the result of a successful invocation or by raising:
\* DatabaseConnectionError after the last OperationalError, DataProcessingError
\* at once on any other exception; it never returns without a successful
\* invocation.
C29_RetryContractForEveryConfig ==
    (t_pc = "done") => RetryContract

\* what the code does satisfy: the contract for MAX_RETRIES of at least 1 and
\* a RETRY_DELAY that is not negative
C29_RetryContractWhenPositive ==
    (t_pc = "done" /\ t_max_retries >= 1 /\ t_retry_delay >= 0) => RetryContract

----------------------------------------------------------------------------
(* get_db and close_db of database.py called by several threads *)

Threads == 1..NumThreads

\* a step taken by thread t while another thread is inside get_db or close_db
Overlaps(t) == \E u \in Threads \ {t} : d_pc[u] # "idle"

\* _db_instance is None at the start; d_created is the set of the instances
\* constructed, and d_got the set of the values get_db returned, since the
\* last close_db set the global to None
InitDb ==
    /\ d_instance = NoInstance /\ d_made = 0 /\ d_created = {} /\ d_got = {}
    /\ d_pc = [t \in Threads |-> "idle"] /\ d_overlap = FALSE
    /\ CoreIdle /\ FmtIdle /\ RouteIdle /\ RetryIdle

\* get_db: "if _db_instance is None"
GetTest(t) ==
    /\ d_pc[t] = "idle"
    /\ d_pc' = [d_pc EXCEPT ![t] = IF d_instance = NoInstance THEN "create" ELSE "return"]
    /\ d_overlap' = (d_overlap \/ Overlaps(t))
    /\ UNCHANGED <<d_instance, d_made, d_created, d_got>>
    /\ UNCHANGED <<core_vars, fmt_vars, route_vars, retry_vars>>

\* get_db: "_db_instance = DatabaseConnection()"
GetCreate(t) ==
    /\ d_pc[t] = "create" /\ d_made < MaxInstances
    /\ d_made' = d_made + 1
    /\ d_instance' = Instance(d_made + 1)
    /\ d_created' = d_created \cup {Instance(d_made + 1)}
    /\ d_pc' = [d_pc EXCEPT ![t] = "return"]
    /\ d_overlap' = (d_overlap \/ Overlaps(t))
    /\ UNCHANGED d_got
    /\ UNCHANGED <<core_vars, fmt_vars, route_vars, retry_vars>>

\* get_db: "return _db_instance", a read of the global
GetReturn(t) ==
    /\ d_pc[t] = "return"
    /\ d_got' = d_got \cup {d_instance}
    /\ d_pc' = [d_pc EXCEPT ![t] = "idle"]
    /\ d_overlap' = (d_overlap \/ Overlaps(t))
    /\ UNCHANGED <<d_instance, d_made, d_created>>
    /\ UNCHANGED <<core_vars, fmt_vars, route_vars, retry_vars>>

\* close_db: "if _db_instance"; on None the call returns at once
CloseTest(t) ==
    /\ d_pc[t] = "idle" /\ d_instance # NoInstance
    /\ d_pc' = [d_pc EXCEPT ![t] = "dispose"]
    /\ d_overlap' = (d_overlap \/ Overlaps(t))
    /\ UNCHANGED <<d_instance, d_made, d_created, d_got>>
    /\ UNCHANGED <<core_vars, fmt_vars, route_vars, retry_vars>>

\* close_db: "_db_instance.close()", a read of the global; AttributeError
\* ends the call when another thread has set it to None
CloseDispose(t) ==
    /\ d_pc[t] = "dispose"
    /\ d_pc' = [d_pc EXCEPT ![t] = IF d_instance = NoInstance THEN "idle" ELSE "clear"]
    /\ d_overlap' = (d_overlap \/ Overlaps(t))
    /\ UNCHANGED <<d_instance, d_made, d_created, d_got>>
    /\ UNCHANGED <<core_vars, fmt_vars, route_vars, retry_vars>>

\* close_db: "_db_instance = None"
CloseClear(t) ==
    /\ d_pc[t] = "clear"
    /\ d_instance' = NoInstance /\ d_created' = {} /\ d_got' = {}
    /\ d_pc' = [d_pc EXCEPT ![t] = "idle"]
    /\ d_overlap' = (d_overlap \/ Overlaps(t))
    /\ UNCHANGED d_made
    /\ UNCHANGED <<core_vars, fmt_vars, route_vars, retry_vars>>

NextDb ==
    \E t \in Threads :
        \/ GetTest(t) \/ GetCreate(t) \/ GetReturn(t)
        \/ CloseTest(t) \/ CloseDispose(t) \/ CloseClear(t)

SpecDb == InitDb /\ [][NextDb]_vars

OneInstance ==
    /\ Cardinality(d_created) <= 1
    /\ d_got \subseteq d_created
    /\ (d_instance # NoInstance) => d_created = {d_instance}

\* C30: between two close_db calls at most one DatabaseConnection instance is
\* created and every get_db call returns that same instance, also when get_db
\* is called by several threads at the same time; after close_db the next
\* get_db creates a fresh instance.
C30_OneInstanceBetweenCloses == OneInstance

\* what the code does satisfy: the same as long as no call ran while another
\* thread was inside get_db or close_db
C30_OneInstanceWithoutOverlap == (~d_overlap) => OneInstance

\* reached without overlap: a second instance after a close_db, returned by
\* the get_db that made it
C30_FreshInstanceAfterClose ==
    /\ ~d_overlap /\ d_made = 2 /\ d_instance = Instance(2)
    /\ d_created = {Instance(2)} /\ d_got = {Instance(2)}

====
